---- MODULE Spec2Model ----
(***************************************************************************)
(* A model of the sleepyband host stack: the outbound fragmenter of        *)
(* sleepyband/band.py (Band.enqueue and the BLE write callbacks) and the   *)
(* session machine of sleepyband/protocol_machine.py (ProtocolMachine).    *)
(*                                                                         *)
(* A packet is a record; pkt.to_bytes() is the byte string of PacketLen    *)
(* bytes, and a slice [pkt, i0, i1, seqno] of the transmit queue stands    *)
(* for the tuple (pkt.to_bytes()[i0:i1], seqno).  A handler that raises    *)
(* keeps the assignments it made before the raise; the exception is left   *)
(* in exc.                                                                 *)
(***************************************************************************)
EXTENDS Integers, Sequences, FiniteSets, TLC

VARIABLES
    connection_state,  \* ProtocolMachine.connection_state
    session_state,     \* ProtocolMachine.session_state
    ble_conn,          \* ProtocolMachine.ble_conn: "None" or "band"
    packets,           \* ProtocolMachine.packets: seqno -> (pkt, cb)
    seqno,             \* ProtocolMachine.seqno, the allocator's counter
    datareq_packet_cb, \* ProtocolMachine.datareq_packet_cb: the data chunk callback
    logreq_packet_cb,  \* ProtocolMachine.logreq_packet_cb: the log chunk callback
    write_pending,     \* Band.write_pending
    write_buf,         \* Band.write_buf: the queue of (buf, seqno) tuples
    outstanding,       \* writes handed to rx_char.write_value and not yet answered
    ev,                \* the operation that made the last step, with its argument
    exc,               \* the exception that operation raised, or "none"
    out,               \* the packets that operation passed to Band.enqueue
    ss_cb,             \* the session_state_cb invocations it made: <<old, new>>
    cb_calls,          \* the completion and chunk callbacks it invoked
    ret,               \* the value it returned, "None" if none or if it raised
    awaiting,          \* seqno -> kind of the session requests enqueued and not yet ACKed
    allocated,         \* every value _seqno() has returned, in order
    probe,             \* TRUE in an instrumented run: the histories below are kept
    wire,              \* history: the slices handed to rx_char.write_value
    acked,             \* history: the slices whose write reported success
    sent,              \* history: the packets passed to Band.enqueue
    ss_log,            \* history: every session_state_cb invocation
    trace,             \* history: the operations performed on the machine
    bufs,              \* PacketStateMachine.bufs: the chunks received and not yet parsed
    rx_pkts,           \* history: the packets the parser passed to its pkt_cb
    feed,              \* what the BLE layer has delivered to rx_buf so far
    thread,            \* where the caller and the transport thread stand inside Band
    runner             \* DeviceLogRunner: its flags, its log and the requests it made

vars == <<connection_state, session_state, ble_conn, packets, seqno,
          datareq_packet_cb, logreq_packet_cb,
          write_pending, write_buf, outstanding, ev, exc, out, ss_cb,
          cb_calls, ret, awaiting, allocated, probe, wire, acked, sent,
          ss_log, trace, bufs, rx_pkts, feed, thread, runner>>

-----------------------------------------------------------------------------
(* Bounds of the model.                                                    *)

\* the allocator is not asked for a seqno beyond this one
MaxSeqno == 2
\* an operation that enqueues is taken only while the queue holds at most this many slices
MaxQueue == 1
\* a completion callback left installed is fired at most this many times
MaxFired == 2
\* packets handed to Band.enqueue in an instrumented run
MaxPkts == 3
\* inbound packets in an instrumented bring-up
MaxRx == 3
\* chunks a frame is delivered in
MaxChunks == 3
\* junk chunks delivered before a frame
MaxJunk == 2
\* frames delivered one after the other
MaxFrames == 3

\* chunks checksummed one after the other
MaxCrcChunks == 3

\* calls of Band.enqueue the runner's thread makes while the GATT thread runs
MaxCalls == 2

\* request_log_file calls a DeviceLogRunner makes
MaxRequests == 3

-----------------------------------------------------------------------------
(* Program constants.                                                      *)

\* band.py: range(0, len(buf), 20)
MTU == 20
\* packets.py: struct "<HHQLHLH"
HEADER_LEN == 24
\* protocol_machine.py: version_str = '9' + '\0'*13
VERSION_LEN == 14

Min(a, b) == IF a < b THEN a ELSE b

-----------------------------------------------------------------------------
(* Packets.                                                                *)

NoPkt == [kind |-> "None", seqno |-> 0, response |-> 0, status |-> 0,
          orig_kind |-> "None", value |-> 0, id |-> 0]

\* BasePacket.__init__: a header with the class's COMMAND, seqno and response
BasePacket(kind, s) == [NoPkt EXCEPT !.kind = kind, !.seqno = s]

AckPacket(s, status, orig_kind) ==
    [BasePacket("ACK", s) EXCEPT !.status = status, !.orig_kind = orig_kind]

SessionStartPacket(s) == BasePacket("SESSION_START", s)

LEDPacket(s, value) == [BasePacket("LEDS_CONTROL", s) EXCEPT !.value = value]

DeviceResetPacket(s, reason) == [BasePacket("DEVICE_RESET", s) EXCEPT !.value = reason]

SendStoredDataPacket(s) == BasePacket("SEND_STORED_DATA", s)

IsDevicePairedPacket(s) == BasePacket("IS_DEVICE_PAIRED", s)

IsDevicePairedResponsePacket(s, response) ==
    [BasePacket("IS_DEVICE_PAIRED_RESP", s) EXCEPT !.response = response]

SessionStartRespPacket(s) == BasePacket("SESSION_START_RESP", s)

\* The packet classes below are those of sleepyband/packets.py that
\* protocol_machine.py names: the requests AcquisitionStartPacket,
\* AcquisitionStopPacket and LogGetPacket, and the packets the parser builds
\* for the kinds DATA_RESP and GET_LOG_FILE_RESP.
AcquisitionStartPacket(s) == BasePacket("ACQUISITION_START", s)

AcquisitionStopPacket(s) == BasePacket("ACQUISITION_STOP", s)

\* the payload is the offset and the length asked for; value keeps the offset
LogGetPacket(s, offset, length) == [BasePacket("LOG_GET", s) EXCEPT !.value = offset]

DataRespPacket(s) == BasePacket("DATA_RESP", s)

LogFileRespPacket(s) == BasePacket("GET_LOG_FILE_RESP", s)

\* LOG_GET carries u32 offset, u32 length
LOG_GET_PAYLOAD_LEN == 8

\* AckPacket.is_success
is_success(pkt) == pkt.status = 0

\* is_paired with the comparison inverted
is_paired_inverted(pkt) == pkt.response = 0

\* IsDevicePairedResponsePacket.is_paired
is_paired(pkt) == pkt.response # 0

\* len(pkt.payload()) for each packet class
PayloadLen(pkt) ==
    CASE pkt.kind = "ACK" -> 5
      [] pkt.kind = "SESSION_START" -> 5 + VERSION_LEN + 1
      [] pkt.kind = "SESSION_START_RESP" -> 512
      [] pkt.kind = "LEDS_CONTROL" -> 1
      [] pkt.kind = "DEVICE_RESET" -> 1
      [] pkt.kind = "IS_DEVICE_PAIRED_RESP" -> 5
      [] pkt.kind = "LOG_GET" -> LOG_GET_PAYLOAD_LEN
      [] OTHER -> 0

\* len(pkt.to_bytes()): the 24 header bytes and the payload
PacketLen(pkt) == HEADER_LEN + PayloadLen(pkt)

-----------------------------------------------------------------------------
(* The state as one record, so that a handler is a composition of the      *)
(* calls it makes.  Begin is the state an operation starts from: what the  *)
(* previous operation raised and emitted is cleared.                       *)

Cur == [connection_state |-> connection_state, session_state |-> session_state,
        ble_conn |-> ble_conn, packets |-> packets, seqno |-> seqno,
        datareq_packet_cb |-> datareq_packet_cb,
        logreq_packet_cb |-> logreq_packet_cb,
        ret |-> ret, awaiting |-> awaiting,
        write_pending |-> write_pending, write_buf |-> write_buf,
        outstanding |-> outstanding, exc |-> exc, out |-> out, ss_cb |-> ss_cb,
        cb_calls |-> cb_calls, allocated |-> allocated, probe |-> probe,
        wire |-> wire, acked |-> acked, sent |-> sent, ss_log |-> ss_log,
        trace |-> trace, thread |-> thread, runner |-> runner]

Begin == [Cur EXCEPT !.exc = "none", !.out = <<>>, !.ss_cb = <<>>, !.cb_calls = <<>>,
                     !.ret = "None"]

Commit(st, e) ==
    /\ ev' = e
    /\ connection_state' = st.connection_state
    /\ session_state' = st.session_state
    /\ ble_conn' = st.ble_conn
    /\ packets' = st.packets
    /\ seqno' = st.seqno
    /\ datareq_packet_cb' = st.datareq_packet_cb
    /\ logreq_packet_cb' = st.logreq_packet_cb
    /\ ret' = (IF st.exc = "none" THEN st.ret ELSE "None")
    /\ awaiting' = st.awaiting
    /\ write_pending' = st.write_pending
    /\ write_buf' = st.write_buf
    /\ outstanding' = st.outstanding
    /\ exc' = st.exc
    /\ out' = st.out
    /\ ss_cb' = st.ss_cb
    /\ cb_calls' = st.cb_calls
    /\ allocated' = st.allocated
    /\ probe' = st.probe
    /\ wire' = st.wire
    /\ acked' = st.acked
    /\ sent' = st.sent
    /\ ss_log' = st.ss_log
    /\ trace' = IF st.probe THEN Append(st.trace, e) ELSE st.trace
    /\ thread' = st.thread
    /\ runner' = st.runner
    /\ UNCHANGED <<bufs, rx_pkts, feed>>

Raise(st, e) == [st EXCEPT !.exc = e]

\* a dict: a function on the set of its keys
EmptyDict == [k \in {} |-> 0]
Put(d, k, v) == [x \in DOMAIN d \cup {k} |-> IF x = k THEN v ELSE d[x]]
Del(d, k) == [x \in DOMAIN d \ {k} |-> d[x]]
Last(q) == q[Len(q)]

\* a history is kept in an instrumented run only
Log(st, h, x) == IF st.probe THEN Append(h, x) ELSE h

-----------------------------------------------------------------------------
(* Band: the outbound fragmenter (sleepyband/band.py).                     *)

\* the (buf[i0:i1], seqno) tuples Band.enqueue appends for pkt
Slices(pkt) ==
    [k \in 1..((PacketLen(pkt) + MTU - 1) \div MTU) |->
        [pkt |-> pkt, i0 |-> MTU * (k - 1),
         i1 |-> Min(MTU * (k - 1) + MTU, PacketLen(pkt)), seqno |-> pkt.seqno]]

\* Band._attempt_transmit
attempt_transmit(st) ==
    IF st.exc # "none" THEN st
    ELSE IF st.write_pending THEN Raise(st, "ValueError")
    ELSE IF st.write_buf = <<>> THEN Raise(st, "IndexError")
    ELSE [st EXCEPT !.outstanding = @ + 1,
                    !.wire = Log(st, @, Head(st.write_buf)),
                    !.write_pending = TRUE]

\* enqueue without the "if not self.write_pending" test
enqueue_no_check(st, pkt) ==
    IF st.exc # "none" THEN st
    ELSE attempt_transmit([st EXCEPT !.write_buf = @ \o Slices(pkt),
                                     !.out = Append(@, pkt),
                                     !.sent = Log(st, @, pkt)])

\* Band.enqueue
enqueue(st, pkt) ==
    IF st.exc # "none" THEN st
    ELSE LET q == [st EXCEPT !.write_buf = @ \o Slices(pkt),
                             !.out = Append(@, pkt),
                             !.sent = Log(st, @, pkt)]
         IN  IF ~q.write_pending THEN attempt_transmit(q) ELSE q

\* write-succeeded with write_buf.pop() in place of write_buf.pop(0)
characteristic_write_value_succeeded_pop_last(st) ==
    LET a == [st EXCEPT !.outstanding = @ - 1, !.write_pending = FALSE]
    IN  IF a.write_buf = <<>> THEN Raise(a, "IndexError")
        ELSE LET b == [a EXCEPT !.write_buf = SubSeq(@, 1, Len(@) - 1),
                                !.acked = Log(st, @, Head(st.write_buf))]
             IN  IF b.write_buf # <<>> THEN attempt_transmit(b) ELSE b

\* write-succeeded without "self.write_pending = False"
characteristic_write_value_succeeded_keep_pending(st) ==
    LET a == [st EXCEPT !.outstanding = @ - 1]
    IN  IF a.write_buf = <<>> THEN Raise(a, "IndexError")
        ELSE LET b == [a EXCEPT !.write_buf = Tail(@),
                                !.acked = Log(st, @, Head(st.write_buf))]
             IN  IF b.write_buf # <<>> THEN attempt_transmit(b) ELSE b

\* Band.characteristic_write_value_succeeded
characteristic_write_value_succeeded(st) ==
    LET a == [st EXCEPT !.outstanding = @ - 1, !.write_pending = FALSE]
    IN  IF a.write_buf = <<>> THEN Raise(a, "IndexError")
        ELSE LET b == [a EXCEPT !.write_buf = Tail(@),
                                !.acked = Log(st, @, Head(st.write_buf))]
             IN  IF b.write_buf # <<>> THEN attempt_transmit(b) ELSE b

\* the loop of characteristic_write_value_failed:
\* while self.write_buf and self.write_buf[0][1] == seqno: self.write_buf.pop(0)
RECURSIVE PopSeqno(_, _)
PopSeqno(q, s) ==
    IF q # <<>> /\ Head(q).seqno = s THEN PopSeqno(Tail(q), s) ELSE q

\* write-failed that drops the failing slice only
characteristic_write_value_failed_pop_one(st) ==
    LET a == [st EXCEPT !.outstanding = @ - 1]
    IN  IF a.write_buf = <<>> THEN Raise(a, "IndexError")
        ELSE LET b == [a EXCEPT !.write_buf = Tail(@), !.write_pending = FALSE]
             IN  IF b.write_buf # <<>> THEN attempt_transmit(b) ELSE b

\* write-failed that also forgets the in-flight entry of the failing seqno
characteristic_write_value_failed_forget(st) ==
    LET a == [st EXCEPT !.outstanding = @ - 1]
    IN  IF a.write_buf = <<>> THEN Raise(a, "IndexError")
        ELSE LET b == [a EXCEPT !.write_buf = PopSeqno(@, Head(st.write_buf).seqno),
                                !.write_pending = FALSE,
                                !.packets = Del(@, Head(st.write_buf).seqno)]
             IN  IF b.write_buf # <<>> THEN attempt_transmit(b) ELSE b

\* Band.characteristic_write_value_failed
characteristic_write_value_failed(st) ==
    LET a == [st EXCEPT !.outstanding = @ - 1]
    IN  IF a.write_buf = <<>> THEN Raise(a, "IndexError")
        ELSE LET b == [a EXCEPT !.write_buf = PopSeqno(@, Head(st.write_buf).seqno),
                                !.write_pending = FALSE]
             IN  IF b.write_buf # <<>> THEN attempt_transmit(b) ELSE b

\* the packet-like objects a caller hands to Band.enqueue in an instrumented run
BandSeqnos == 0..1
BandPkts == { IsDevicePairedPacket(0) }
            \cup { SessionStartPacket(s) : s \in BandSeqnos }

\* a caller's band.enqueue(pkt); id tells the caller's packets apart
BandEnqueue ==
    /\ Len(sent) < MaxPkts
    /\ \E p \in BandPkts :
         LET pkt == [p EXCEPT !.id = Len(sent) + 1]
         IN  Commit(enqueue(Begin, pkt), [op |-> "enqueue", pkt |-> pkt])

\* the BLE layer reports that the outstanding write succeeded
WriteSucceeded ==
    /\ outstanding > 0
    /\ Commit(characteristic_write_value_succeeded(Begin),
              [op |-> "write_succeeded", pkt |-> NoPkt])

\* the BLE layer reports that the outstanding write failed
WriteFailed ==
    /\ outstanding > 0
    /\ Commit(characteristic_write_value_failed(Begin),
              [op |-> "write_failed", pkt |-> NoPkt])

\* a thread that is in no Band method: it holds no local and has raised nothing
NoSlice == [pkt |-> NoPkt, i0 |-> 0, i1 |-> 0, seqno |-> 0]
Idle == [caller |-> [pc |-> "idle", todo |-> <<>>, seqno |-> 0, buf |-> NoSlice,
                     exc |-> "none", pkt |-> NoPkt, cb |-> "None"],
         transport |-> [pc |-> "idle", todo |-> <<>>, seqno |-> 0, buf |-> NoSlice,
                        exc |-> "none"],
         calls |-> 0, queued |-> {}, written |-> {}, purged |-> {}]

\* DeviceLogRunner.__init__: no request made, an empty device_log.  issued
\* is the history of its request_log_file calls, pages counts the
\* GET_LOG_FILE_RESP packets the device has sent
NewRunner == [made_request |-> FALSE, request_sent |-> FALSE, finished |-> FALSE,
              device_log |-> 0, issued |-> <<>>, pages |-> 0]

\* Band.__init__ and ProtocolMachine.__init__
InitState(p) ==
    /\ connection_state = "DISCONNECTED"
    /\ session_state = "NOT_STARTED"
    /\ ble_conn = "None"
    /\ packets = EmptyDict
    /\ seqno = 1
    /\ datareq_packet_cb = "None"
    /\ logreq_packet_cb = "None"
    /\ ret = "None"
    /\ awaiting = EmptyDict
    /\ write_pending = FALSE
    /\ write_buf = <<>>
    /\ outstanding = 0
    /\ ev = [op |-> "init", pkt |-> NoPkt]
    /\ exc = "none"
    /\ out = <<>>
    /\ ss_cb = <<>>
    /\ cb_calls = <<>>
    /\ allocated = <<>>
    /\ probe = p
    /\ wire = <<>>
    /\ acked = <<>>
    /\ sent = <<>>
    /\ ss_log = <<>>
    /\ trace = <<>>
    /\ bufs = <<>>
    /\ rx_pkts = <<>>
    /\ feed = [frame |-> "None", pos |-> 0, junk |-> 0, chunks |-> 0, mtu |-> TRUE,
               done |-> <<>>]
    /\ thread = Idle
    /\ runner = NewRunner

\* the fragmenter alone, driven by a caller and by the BLE layer's write
\* callbacks, delivered one at a time
InitBand == InitState(TRUE)

NextBand == BandEnqueue \/ WriteSucceeded \/ WriteFailed

SpecBand == InitBand /\ [][NextBand]_vars

-----------------------------------------------------------------------------
(* ProtocolMachine (sleepyband/protocol_machine.py).  A completion         *)
(* callback is "handle_idp_ack", "handle_nak" (the closure installed with  *)
(* SESSION_START), "user_cb" (a caller's callback, which only observes) or *)
(* "None".  An entry of the in-flight table also counts, in fired, how     *)
(* often its callback has been invoked since it was installed.             *)

\* _seqno without "self.seqno += 1"
seqno_alloc_no_increment(st) ==
    IF st.exc # "none" THEN st
    ELSE [st EXCEPT !.allocated = Append(@, st.seqno)]

\* ProtocolMachine._seqno: the value returned is Last(allocated)
seqno_alloc(st) ==
    IF st.exc # "none" THEN st
    ELSE [st EXCEPT !.allocated = Append(@, st.seqno), !.seqno = @ + 1]

\* ProtocolMachine.update_session_state
update_session_state(st, new_state) ==
    IF st.exc # "none" THEN st
    ELSE [st EXCEPT !.session_state = new_state,
                    !.ss_cb = Append(@, <<st.session_state, new_state>>),
                    !.ss_log = Log(st, @, <<st.session_state, new_state>>)]

\* ProtocolMachine._enqueue
pm_enqueue(st, pkt, cb) ==
    IF st.exc # "none" THEN st
    ELSE IF st.ble_conn = "None" THEN Raise(st, "AttributeError")
    ELSE LET b == enqueue(st, pkt)
         IN  IF b.exc # "none" THEN b
             ELSE [b EXCEPT !.packets =
                      Put(@, pkt.seqno, [pkt |-> pkt, cb |-> cb, fired |-> 0]),
                            !.awaiting =
                      IF pkt.kind \in {"IS_DEVICE_PAIRED", "SESSION_START"}
                      THEN Put(@, pkt.seqno, pkt.kind) ELSE @]

\* ProtocolMachine.send_ack
send_ack(st, pkt, status) ==
    pm_enqueue(st, AckPacket(pkt.seqno, status, pkt.kind), "None")

\* ProtocolMachine.handle_idp_ack
handle_idp_ack(st, succeeded) ==
    IF succeeded THEN st ELSE update_session_state(st, "IDP_FAILED")

\* handle_nak, the closure of handle_is_device_paired_res
handle_nak(st) == update_session_state(st, "SS_FAILED")

\* cb(seqno, pkt.is_success(), pkt.header.response) in handle_ack
invoke_cb(st, cb, s, succeeded, response) ==
    LET a == [st EXCEPT !.cb_calls = Append(@, [cb |-> cb, seqno |-> s,
                                               succeeded |-> succeeded,
                                               response |-> response]),
                        !.packets[s].fired = @ + 1]
    IN  CASE cb = "handle_idp_ack" -> handle_idp_ack(a, succeeded)
          [] cb = "handle_nak" -> handle_nak(a)
          [] OTHER -> a

\* handle_ack that removes the entry only after a success
handle_ack_keep_on_failure(st, pkt) ==
    LET s == pkt.seqno
        t == [st EXCEPT !.awaiting = Del(@, s)]
        a == IF s \in DOMAIN t.packets /\ t.packets[s].cb # "None"
             THEN invoke_cb(t, t.packets[s].cb, s, is_success(pkt), pkt.response)
             ELSE t
    IN  IF s # 0 /\ is_success(pkt)
        THEN IF s \in DOMAIN a.packets
             THEN [a EXCEPT !.packets = Del(@, s)]
             ELSE Raise(a, "KeyError")
        ELSE a

\* ProtocolMachine.handle_ack
handle_ack(st, pkt) ==
    LET s == pkt.seqno
        t == [st EXCEPT !.awaiting = Del(@, s)]
        a == IF s \in DOMAIN t.packets /\ t.packets[s].cb # "None"
             THEN invoke_cb(t, t.packets[s].cb, s, is_success(pkt), pkt.response)
             ELSE t
    IN  IF s # 0
        THEN IF s \in DOMAIN a.packets
             THEN [a EXCEPT !.packets = Del(@, s)]
             ELSE Raise(a, "KeyError")
        ELSE a

\* handle_is_device_paired_res with SESSION_START enqueued ahead of the ACK
handle_is_device_paired_res_ss_first(st, pkt) ==
    IF ~is_paired(pkt)
    THEN LET b == update_session_state(st, "SS_PENDING")
             c == seqno_alloc(b)
         IN  send_ack(pm_enqueue(c, SessionStartPacket(Last(c.allocated)),
                                 "handle_nak"), pkt, 0)
    ELSE Raise(send_ack(st, pkt, 0), "AttributeError")

\* ProtocolMachine.handle_is_device_paired_res.  The else branch formats
\* pkt.response, an attribute IsDevicePairedResponsePacket does not have
\* (the field is pkt.header.response): AttributeError, raised before
\* update_session_state(IDP_FAILED).
handle_is_device_paired_res(st, pkt) ==
    LET a == send_ack(st, pkt, 0)
    IN  IF a.exc # "none" THEN a
        ELSE IF ~is_paired(pkt)
        THEN LET b == update_session_state(a, "SS_PENDING")
                 c == seqno_alloc(b)
             IN  pm_enqueue(c, SessionStartPacket(Last(c.allocated)), "handle_nak")
        ELSE Raise(a, "AttributeError")

\* ProtocolMachine.handle_session_start_resp
handle_session_start_resp(st, pkt) ==
    send_ack(update_session_state(st, "STARTED"), pkt, 0)

\* a chunk callback called with data: it consumes the chunk and returns;
\* enqueued is the number of packets the handler had enqueued by then
chunk_cb_call(st, cb, data, pkt) ==
    IF st.exc # "none" THEN st
    ELSE [st EXCEPT !.cb_calls = Append(@, [cb |-> cb, data |-> data, pkt |-> pkt,
                                            enqueued |-> Len(st.out)])]

\* handle_data_resp that ACKs only when a subscriber is registered
handle_data_resp_ack_if_subscribed(st, pkt) ==
    IF st.datareq_packet_cb # "None"
    THEN send_ack(chunk_cb_call(st, st.datareq_packet_cb, "to_bytes", pkt), pkt, 0)
    ELSE st

\* ProtocolMachine.handle_data_resp
handle_data_resp(st, pkt) ==
    LET a == IF st.datareq_packet_cb # "None"
             THEN chunk_cb_call(st, st.datareq_packet_cb, "to_bytes", pkt)
             ELSE st
    IN  send_ack(a, pkt, 0)

\* ProtocolMachine.handle_get_log_file_resp
handle_get_log_file_resp(st, pkt) ==
    LET a == send_ack(st, pkt, 0)
    IN  IF a.logreq_packet_cb # "None"
        THEN chunk_cb_call(a, a.logreq_packet_cb, "logbuf", pkt)
        ELSE a

\* ProtocolMachine.on_packet
on_packet(st, pkt) ==
    CASE pkt.kind = "ACK" -> handle_ack(st, pkt)
      [] pkt.kind = "DATA_RESP" -> handle_data_resp(st, pkt)
      [] pkt.kind = "GET_LOG_FILE_RESP" -> handle_get_log_file_resp(st, pkt)
      [] pkt.kind = "IS_DEVICE_PAIRED_RESP" -> handle_is_device_paired_res(st, pkt)
      [] pkt.kind = "SESSION_START_RESP" -> handle_session_start_resp(st, pkt)
      [] OTHER -> st

\* ProtocolMachine.request_idp
request_idp(st) ==
    LET a == [st EXCEPT !.connection_state = "CONNECTED"]
        b == update_session_state(a, "IDP_PENDING")
    IN  pm_enqueue(b, IsDevicePairedPacket(0), "handle_idp_ack")

\* ProtocolMachine.on_connect_success
on_connect_success(st) == request_idp([st EXCEPT !.ble_conn = "band"])

\* "return seqno": a call that raised returns nothing
Return(st, v) == IF st.exc # "none" THEN st ELSE [st EXCEPT !.ret = v]

\* ProtocolMachine.set_led_value
set_led_value(st, value, cb) ==
    LET a == seqno_alloc(st)
    IN  Return(pm_enqueue(a, LEDPacket(Last(a.allocated), value), cb),
               Last(a.allocated))

\* ProtocolMachine.request_device_reset
request_device_reset(st, cb, reason) ==
    LET a == seqno_alloc(st)
    IN  Return(pm_enqueue(a, DeviceResetPacket(Last(a.allocated), reason), cb),
               Last(a.allocated))

\* ProtocolMachine.request_stored_data
request_stored_data(st, cb) ==
    LET a == seqno_alloc(st)
    IN  Return(pm_enqueue(a, SendStoredDataPacket(Last(a.allocated)), cb),
               Last(a.allocated))

\* request_acquisition_start with the subscription installed after the enqueue
request_acquisition_start_after_enqueue(st, ack_cb, chunk_cb) ==
    LET a == seqno_alloc(st)
        b == pm_enqueue(a, AcquisitionStartPacket(Last(a.allocated)), ack_cb)
    IN  IF b.exc # "none" THEN b
        ELSE Return([b EXCEPT !.datareq_packet_cb = chunk_cb], Last(a.allocated))

\* ProtocolMachine.request_acquisition_start
request_acquisition_start(st, ack_cb, chunk_cb) ==
    LET a == seqno_alloc(st)
        b == [a EXCEPT !.datareq_packet_cb = chunk_cb]
    IN  Return(pm_enqueue(b, AcquisitionStartPacket(Last(a.allocated)), ack_cb),
               Last(a.allocated))

\* ProtocolMachine.request_acquisition_stop
request_acquisition_stop(st, cb) ==
    LET a == seqno_alloc(st)
    IN  Return(pm_enqueue(a, AcquisitionStopPacket(Last(a.allocated)), cb),
               Last(a.allocated))

\* request_log_file with chunk_cb passed to _enqueue in place of ack_cb
request_log_file_chunk_as_ack(st, offset, length, ack_cb, chunk_cb) ==
    LET a == seqno_alloc(st)
        b == [a EXCEPT !.logreq_packet_cb = chunk_cb]
    IN  Return(pm_enqueue(b, LogGetPacket(Last(a.allocated), offset, length),
                          chunk_cb),
               Last(a.allocated))

\* ProtocolMachine.request_log_file
request_log_file(st, offset, length, ack_cb, chunk_cb) ==
    LET a == seqno_alloc(st)
        b == [a EXCEPT !.logreq_packet_cb = chunk_cb]
    IN  Return(pm_enqueue(b, LogGetPacket(Last(a.allocated), offset, length),
                          ack_cb),
               Last(a.allocated))

-----------------------------------------------------------------------------
(* The machine's operations, as the caller, the BLE layer and the device   *)
(* drive them.                                                             *)

\* the header values of the device's packets: an ACK carries the seqno of a
\* host packet, a response the seqno the device gave it
RxSeqnos == 0..MaxSeqno
DeviceSeqnos == {0, 1}
RxResponses == {0, 1}
RxStatuses == {0, 1}
\* one value, unlike every seqno and status of the model
AckResponses == {7}
LedValues == {1}

\* the operations on the machine (not the BLE write callbacks) of a trace
RECURSIVE PmOps(_)
PmOps(t) ==
    IF t = <<>> THEN <<>>
    ELSE IF Head(t).op \in {"write_succeeded", "write_failed", "enqueue"}
         THEN PmOps(Tail(t))
         ELSE <<Head(t)>> \o PmOps(Tail(t))

\* the queue has room, and an instrumented run has operations left
Room == /\ Len(write_buf) <= MaxQueue
        /\ probe => Len(PmOps(trace)) < MaxRx

\* Band.services_resolved calls conn_cb(self): on_connect_success
OnConnectSuccess ==
    /\ Room
    /\ Commit(on_connect_success(Begin), [op |-> "on_connect_success", pkt |-> NoPkt])

\* the caller's request_idp()
RequestIdp ==
    /\ Room
    /\ Commit(request_idp(Begin), [op |-> "request_idp", pkt |-> NoPkt])

\* the caller's set_led_value(value, cb)
SetLedValue ==
    /\ Room
    /\ seqno <= MaxSeqno
    /\ \E v \in LedValues :
         Commit(set_led_value(Begin, v, "user_cb"),
                [op |-> "set_led_value", pkt |-> NoPkt])

\* the caller's request_device_reset(cb)
RequestDeviceReset ==
    /\ Room
    /\ seqno <= MaxSeqno
    /\ Commit(request_device_reset(Begin, "user_cb", 0),
              [op |-> "request_device_reset", pkt |-> NoPkt])

\* the caller's request_stored_data(cb)
RequestStoredData ==
    /\ Room
    /\ seqno <= MaxSeqno
    /\ Commit(request_stored_data(Begin, "user_cb"),
              [op |-> "request_stored_data", pkt |-> NoPkt])

\* the parser hands a packet to on_packet; notifications are enabled in
\* services_resolved, so none arrives before on_connect_success
OnPacket(pkt) ==
    /\ ble_conn # "None"
    /\ Room
    /\ Commit(on_packet(Begin, pkt), [op |-> "on_packet", pkt |-> pkt])

\* an ACK or NAK from the device
OnAck ==
    \E s \in RxSeqnos, status \in RxStatuses, r \in AckResponses :
        /\ s \in DOMAIN packets => packets[s].fired < MaxFired
        /\ OnPacket([AckPacket(s, status, "None") EXCEPT !.response = r])

\* an IS_DEVICE_PAIRED_RESP from the device
OnIsDevicePairedResp ==
    \E s \in DeviceSeqnos, r \in RxResponses :
        /\ seqno <= MaxSeqno
        /\ OnPacket(IsDevicePairedResponsePacket(s, r))

\* a SESSION_START_RESP from the device
OnSessionStartResp ==
    \E s \in DeviceSeqnos : OnPacket(SessionStartRespPacket(s))

\* the chunk callbacks a caller subscribes, and the log window it asks for
ChunkCbs == {"chunk_cb_a", "chunk_cb_b"}
LogOffsets == {0}
LOG_LENGTH == 2048

\* the caller's request_acquisition_start(ack_cb, chunk_cb)
RequestAcquisitionStart ==
    /\ Room
    /\ seqno <= MaxSeqno
    /\ \E c \in ChunkCbs :
         Commit(request_acquisition_start(Begin, "user_cb", c),
                [op |-> "request_acquisition_start", pkt |-> NoPkt, chunk_cb |-> c])

\* the caller's request_acquisition_stop(cb)
RequestAcquisitionStop ==
    /\ Room
    /\ seqno <= MaxSeqno
    /\ Commit(request_acquisition_stop(Begin, "user_cb"),
              [op |-> "request_acquisition_stop", pkt |-> NoPkt])

\* the caller's request_log_file(offset, length, ack_cb, chunk_cb)
RequestLogFile ==
    /\ Room
    /\ seqno <= MaxSeqno
    /\ \E c \in ChunkCbs, o \in LogOffsets :
         Commit(request_log_file(Begin, o, LOG_LENGTH, "user_cb", c),
                [op |-> "request_log_file", pkt |-> NoPkt, chunk_cb |-> c])

\* a DATA_RESP from the device
OnDataResp ==
    \E s \in DeviceSeqnos : OnPacket(DataRespPacket(s))

\* a GET_LOG_FILE_RESP from the device
OnLogFileResp ==
    \E s \in DeviceSeqnos : OnPacket(LogFileRespPacket(s))

\* the machine and the fragmenter under every operation
Init == InitState(FALSE)

Next ==
    \/ OnConnectSuccess
    \/ RequestIdp
    \/ SetLedValue
    \/ RequestDeviceReset
    \/ RequestStoredData
    \/ OnAck
    \/ OnIsDevicePairedResp
    \/ OnSessionStartResp
    \/ WriteSucceeded
    \/ WriteFailed

Spec == Init /\ [][Next]_vars

\* the machine with its streaming requests and the device's streamed chunks
InitStream == InitState(FALSE)

NextStream ==
    \/ OnConnectSuccess
    \/ RequestIdp
    \/ SetLedValue
    \/ RequestDeviceReset
    \/ RequestStoredData
    \/ RequestAcquisitionStart
    \/ RequestAcquisitionStop
    \/ RequestLogFile
    \/ OnAck
    \/ OnIsDevicePairedResp
    \/ OnSessionStartResp
    \/ OnDataResp
    \/ OnLogFileResp
    \/ WriteSucceeded

SpecStream == InitStream /\ [][NextStream]_vars

\* an instrumented bring-up: the band connects, the device sends its
\* pairing and session-start responses, every write succeeds
InitBringUp == InitState(TRUE)

NextBringUp ==
    \/ OnConnectSuccess
    \/ OnIsDevicePairedResp
    \/ OnSessionStartResp
    \/ WriteSucceeded

SpecBringUp == InitBringUp /\ [][NextBringUp]_vars

-----------------------------------------------------------------------------
(* Claims about the fragmenter, checked under SpecBand.                    *)

\* the slices of the packet with identity i among the slices of sequence q
OfPkt(q, i) == { k \in 1..Len(q) : q[k].pkt.id = i }

\* the packet identities of an instrumented run
Ids == 1..Len(sent)

\* C1: under one-at-a-time delivery of enqueue, write-succeeded and
\* write-failed, at most one BLE write is outstanding and _attempt_transmit
\* never raises its ValueError (it is never entered with write_pending set).
C1_SingleOutstandingWrite ==
    /\ outstanding <= 1
    /\ exc # "ValueError"

\* an enqueue that found a write outstanding and queued behind it
C1_Witness ==
    /\ ev.op = "enqueue"
    /\ Len(sent) >= 2
    /\ Len(wire) = 1
    /\ outstanding = 1

\* C2: enqueue appends consecutive slices of at most 20 bytes that carry the
\* packet's seqno and cover its serialization exactly; the slices of a packet
\* reach write_value in order and with no slice of another packet between them.
C2_SlicesInOrderContiguous ==
    /\ ev.op = "enqueue" /\ exc = "none" =>
         LET n == Cardinality(OfPkt(write_buf, ev.pkt.id))
             L == Len(write_buf)
             first == L - n + 1
         IN  /\ n >= 1
             /\ OfPkt(write_buf, ev.pkt.id) = first..L
             /\ write_buf[first].i0 = 0
             /\ write_buf[L].i1 = PacketLen(ev.pkt)
             /\ \A k \in first..L :
                  /\ write_buf[k].seqno = ev.pkt.seqno
                  /\ write_buf[k].pkt = ev.pkt
                  /\ write_buf[k].i0 < write_buf[k].i1
                  /\ write_buf[k].i1 - write_buf[k].i0 <= MTU
                  /\ k < L => write_buf[k].i1 = write_buf[k + 1].i0
    /\ \A i \in 1..Len(wire) :
         \/ wire[i].i0 = 0
         \/ /\ i > 1
            /\ wire[i - 1].pkt.id = wire[i].pkt.id
            /\ wire[i - 1].i1 = wire[i].i0
    /\ \A i, j \in 1..Len(wire) :
         i < j /\ wire[i].pkt.id = wire[j].pkt.id =>
            /\ wire[i].i0 < wire[j].i0
            /\ \A k \in i..j : wire[k].pkt.id = wire[i].pkt.id

\* all three slices of one packet written, then a slice of the next packet
C2_Witness ==
    \E i \in 1..Len(wire) :
        /\ i > 3
        /\ wire[i].pkt.id # wire[i - 1].pkt.id
        /\ wire[i - 1].i0 = 2 * MTU
        /\ wire[i - 1].i1 = PacketLen(wire[i - 1].pkt)

\* the step is a write-failed event
IsWriteFailedStep == trace' # trace /\ ev'.op = "write_failed"

\* C3: a write failure removes the failing slice and every queued slice that
\* bears its seqno, clears write_pending, and starts the write of the first
\* remaining slice if there is one; the slices of other seqnos keep their order.
C3_FailurePurgesSeqno ==
    [][IsWriteFailedStep =>
        LET s == Head(write_buf).seqno
            Other(x) == x.seqno # s
        IN  /\ write_buf' = SelectSeq(write_buf, Other)
            /\ write_pending' = (write_buf' # <<>>)
            /\ write_buf' # <<>> => wire' = Append(wire, Head(write_buf'))]_vars

\* C4 as claimed: once no slice of a packet is queued any more, either all
\* of its slices were written successfully or none was.
C4_AllOrNothing ==
    \A i \in Ids :
        OfPkt(write_buf, i) = {} =>
            Cardinality(OfPkt(acked, i)) \in {0, Len(Slices(sent[i]))}

\* C4 as amended: a slice is written only after every earlier slice of its
\* packet was written successfully, and after a failed write no further
\* slice of that packet is written: the slices of a packet that reached the
\* device are an initial run of its slices (a partial frame when a write
\* after the first fails), never a frame with a gap.
C4_DeliveredIsPrefix ==
    /\ \A k \in 1..Len(wire) :
         \/ wire[k].i0 = 0
         \/ \E a \in 1..Len(acked) :
               acked[a].pkt.id = wire[k].pkt.id /\ acked[a].i1 = wire[k].i0
    /\ \A a \in 1..Len(acked) :
         \/ acked[a].i0 = 0
         \/ /\ a > 1
            /\ acked[a - 1].pkt.id = acked[a].pkt.id
            /\ acked[a - 1].i1 = acked[a].i0
    /\ \A i \in Ids :
         Cardinality(OfPkt(wire, i)) <= Cardinality(OfPkt(acked, i)) + 1

\* a packet abandoned after its first slice had reached the device
C4_Witness ==
    \E i \in Ids :
        /\ OfPkt(write_buf, i) = {}
        /\ Cardinality(OfPkt(acked, i)) = 1
        /\ Len(Slices(sent[i])) = 3

-----------------------------------------------------------------------------
(* Claims about the session machine, checked under Spec and SpecBringUp.   *)

\* C5: the completion callback installed for a seqno of the in-flight table,
\* seqno 0 included, is invoked at most once, however many ACKs carry the seqno.
C5_CallbackAtMostOnce ==
    \A s \in DOMAIN packets : packets[s].fired <= 1

\* the packets of q that are host requests: everything but the ACKs
Requests(q) == { i \in 1..Len(q) : q[i].kind # "ACK" }

\* C6: the seqnos handed out by _seqno are 1, 2, 3, ... in this order; every
\* host request but IS_DEVICE_PAIRED carries the seqno allocated for it in the
\* same operation, which is at least 1 and above every seqno allocated before;
\* IS_DEVICE_PAIRED, enqueued by request_idp only, carries seqno 0.
C6_SeqnoDiscipline ==
    /\ [](/\ seqno = Len(allocated) + 1
          /\ \A i \in 1..Len(allocated) : allocated[i] = i)
    /\ [][\A i \in Requests(out') :
            IF out'[i].kind = "IS_DEVICE_PAIRED"
            THEN /\ out'[i].seqno = 0
                 /\ ev'.op \in {"on_connect_success", "request_idp"}
                 /\ allocated' = allocated
            ELSE /\ out'[i].seqno = seqno
                 /\ out'[i].seqno >= 1
                 /\ \A k \in 1..Len(allocated) : allocated[k] < out'[i].seqno
                 /\ allocated' = Append(allocated, seqno)
                 /\ seqno' = seqno + 1]_vars

\* SESSION_START was given seqno 2, after a caller's request took seqno 1 and
\* IS_DEVICE_PAIRED went out with seqno 0
C6_Witness ==
    /\ allocated = <<1, 2>>
    /\ \E i \in Requests(out) : out[i] = SessionStartPacket(2)
    /\ 0 \in DOMAIN packets
    /\ packets[0].pkt = IsDevicePairedPacket(0)

\* the step is on_packet of an IS_DEVICE_PAIRED_RESP
IsIdpRespStep ==
    /\ ev'.op = "on_packet"
    /\ ev'.pkt.kind = "IS_DEVICE_PAIRED_RESP"

\* the step enqueues SESSION_START with a newly allocated seqno, registers it
\* and moves the session to SS_PENDING
StartsSession ==
    /\ \E i \in Requests(out') : out'[i] = SessionStartPacket(seqno)
    /\ allocated' = Append(allocated, seqno)
    /\ seqno' = seqno + 1
    /\ seqno \in DOMAIN packets'
    /\ packets'[seqno].pkt = SessionStartPacket(seqno)
    /\ session_state' = "SS_PENDING"
    /\ ss_cb' = << <<session_state, "SS_PENDING">> >>

\* the step enqueues no SESSION_START
NoSessionStart ==
    \A i \in 1..Len(out') : out'[i].kind # "SESSION_START"

\* C7 as claimed: on IS_DEVICE_PAIRED_RESP, header.response != 0 starts the
\* session (SESSION_START with a new seqno, SS_PENDING) and header.response = 0
\* moves the session to IDP_FAILED with no SESSION_START.
C7_NonzeroResponseStartsSession ==
    [][IsIdpRespStep =>
        IF ev'.pkt.response # 0
        THEN StartsSession
        ELSE session_state' = "IDP_FAILED" /\ NoSessionStart]_vars

\* C7 as amended: on IS_DEVICE_PAIRED_RESP the machine first enqueues an ACK
\* of it; header.response = 0 then starts the session (SESSION_START with a
\* new seqno, SS_PENDING); header.response != 0 enqueues no SESSION_START and
\* makes no transition to SS_PENDING.
C7_ZeroResponseStartsSession ==
    [][IsIdpRespStep =>
        /\ Len(out') >= 1
        /\ out'[1] = AckPacket(ev'.pkt.seqno, 0, "IS_DEVICE_PAIRED_RESP")
        /\ IF ev'.pkt.response = 0
           THEN StartsSession
           ELSE /\ NoSessionStart
                /\ out' = <<AckPacket(ev'.pkt.seqno, 0, "IS_DEVICE_PAIRED_RESP")>>
                /\ \A i \in 1..Len(ss_cb') : ss_cb'[i][2] # "SS_PENDING"]_vars

\* an IS_DEVICE_PAIRED_RESP with response 0 has started the session
C7_Witness ==
    /\ ev.op = "on_packet"
    /\ ev.pkt.kind = "IS_DEVICE_PAIRED_RESP"
    /\ ev.pkt.response = 0
    /\ session_state = "SS_PENDING"
    /\ \E i \in Requests(out) : out[i].kind = "SESSION_START"

\* C8: handling any IS_DEVICE_PAIRED_RESP leaves the session in SS_PENDING or
\* IDP_FAILED and invokes the session-state callback once, with the previous
\* and the new state, on both branches of the pairing predicate.
C8_IdpRespAdvancesLifecycle ==
    [][IsIdpRespStep =>
        /\ session_state' \in {"SS_PENDING", "IDP_FAILED"}
        /\ ss_cb' = << <<session_state, session_state'>> >>]_vars

\* the run is a bring-up: connect, IS_DEVICE_PAIRED_RESP, SESSION_START_RESP and
\* nothing else, and a SESSION_START was sent
IsBringUp(ops) ==
    /\ Len(ops) = 3
    /\ ops[1].op = "on_connect_success"
    /\ ops[2].op = "on_packet" /\ ops[2].pkt.kind = "IS_DEVICE_PAIRED_RESP"
    /\ ops[3].op = "on_packet" /\ ops[3].pkt.kind = "SESSION_START_RESP"
    /\ \E i \in 1..Len(sent) : sent[i].kind = "SESSION_START"

C10_OnlyNakFailsSessionStart ==
    [][session_state # "SS_FAILED" /\ session_state' = "SS_FAILED" =>
        /\ ev'.op = "on_packet"
        /\ ev'.pkt.kind = "ACK"
        /\ ~is_success(ev'.pkt)]_vars

\* the step is on_packet of an ACK
IsAckStep ==
    /\ ev'.op = "on_packet"
    /\ ev'.pkt.kind = "ACK"

\* C11: an ACK with status != 0 for the seqno of the outstanding
\* IS_DEVICE_PAIRED request moves the session to IDP_FAILED, one for the seqno
\* of the outstanding SESSION_START moves it to SS_FAILED, and the session-state
\* callback is invoked with the old and the new state, whatever the host
\* received and ACKed since the request.
C11_NakFailsSession ==
    [][IsAckStep /\ ~is_success(ev'.pkt) /\ ev'.pkt.seqno \in DOMAIN awaiting =>
        LET failed == IF awaiting[ev'.pkt.seqno] = "IS_DEVICE_PAIRED"
                      THEN "IDP_FAILED" ELSE "SS_FAILED"
        IN  /\ session_state' = failed
            /\ ss_cb' = << <<session_state, failed>> >>]_vars

\* C12: every change of the session state follows the lifecycle: SS_PENDING
\* and IDP_FAILED are entered from IDP_PENDING only, STARTED and SS_FAILED from
\* SS_PENDING only, and IDP_PENDING through request_idp only.
C12_LifecycleOrder ==
    [][\A i \in 1..Len(ss_cb') :
         LET old == ss_cb'[i][1]
             new == ss_cb'[i][2]
         IN  old # new =>
               /\ new \in {"SS_PENDING", "IDP_FAILED"} => old = "IDP_PENDING"
               /\ new \in {"STARTED", "SS_FAILED"} => old = "SS_PENDING"
               /\ new = "IDP_PENDING" =>
                    ev'.op \in {"on_connect_success", "request_idp"}
               /\ new # "NOT_STARTED"]_vars

\* C13: in IDP_FAILED or SS_FAILED no packet from the device changes the
\* session state.
C13_FailedIsTerminal ==
    [][(ev'.op = "on_packet" /\ session_state \in {"IDP_FAILED", "SS_FAILED"}) =>
        session_state' = session_state]_vars

\* C14: on an ACK whose seqno is in the in-flight table the registered
\* callback, if there is one, is invoked once with (seqno, status = 0,
\* header.response); the entry is then removed, after a success and after a
\* failure, unless the seqno is 0, whose entry stays; no other entry changes.
C14_AckCompletesEntry ==
    [][IsAckStep /\ ev'.pkt.seqno \in DOMAIN packets =>
        LET s == ev'.pkt.seqno
        IN  /\ exc' = "none"
            /\ cb_calls' = IF packets[s].cb = "None" THEN <<>>
                           ELSE <<[cb |-> packets[s].cb, seqno |-> s,
                                   succeeded |-> (ev'.pkt.status = 0),
                                   response |-> ev'.pkt.response]>>
            /\ DOMAIN packets' = IF s = 0 THEN DOMAIN packets
                                 ELSE DOMAIN packets \ {s}
            /\ s = 0 => /\ packets'[0].pkt = packets[0].pkt
                        /\ packets'[0].cb = packets[0].cb
            /\ \A k \in DOMAIN packets \ {s} : packets'[k] = packets[k]]_vars

\* a NAK completed a caller's request and left the other entries in the table
C14_Witness ==
    /\ ev.op = "on_packet"
    /\ ev.pkt.kind = "ACK"
    /\ ev.pkt.status # 0
    /\ ev.pkt.seqno # 0
    /\ ev.pkt.seqno \notin DOMAIN packets
    /\ cb_calls = <<[cb |-> "user_cb", seqno |-> ev.pkt.seqno,
                    succeeded |-> FALSE, response |-> ev.pkt.response]>>
    /\ Cardinality(DOMAIN packets) >= 2

\* C15: an ACK whose seqno is not in the in-flight table is discarded:
\* handle_ack returns normally, invokes no callback and leaves the table, the
\* session state and the transmit queue as they were.
C15_UnknownAckDiscarded ==
    [][IsAckStep /\ ev'.pkt.seqno \notin DOMAIN packets =>
        /\ exc' = "none"
        /\ cb_calls' = <<>>
        /\ packets' = packets
        /\ session_state' = session_state
        /\ write_buf' = write_buf]_vars

-----------------------------------------------------------------------------
(* Claims about requests and streamed chunks, checked under SpecStream.    *)

\* the kinds of the device's packets that the host answers with an ACK
AckedKinds == {"DATA_RESP", "IS_DEVICE_PAIRED_RESP", "SESSION_START_RESP",
               "GET_LOG_FILE_RESP"}

\* the ACKs among the packets of q
Acks(q) == { i \in 1..Len(q) : q[i].kind = "ACK" }

\* C16: every inbound DATA_RESP, IS_DEVICE_PAIRED_RESP, SESSION_START_RESP and
\* GET_LOG_FILE_RESP makes the host enqueue exactly one ACK, with status 0, the
\* packet's seqno and the packet's kind as orig_kind, with or without a
\* subscriber; an inbound ACK makes the host enqueue nothing.
C16_ResponsesAckedOnce ==
    [][ev'.op = "on_packet" =>
        IF ev'.pkt.kind \in AckedKinds
        THEN /\ Cardinality(Acks(out')) = 1
             /\ \A i \in Acks(out') :
                  out'[i] = AckPacket(ev'.pkt.seqno, 0, ev'.pkt.kind)
        ELSE out' = <<>>]_vars

\* a DATA_RESP was ACKed with no data subscriber registered
C16_Witness ==
    /\ ev.op = "on_packet"
    /\ ev.pkt.kind = "DATA_RESP"
    /\ datareq_packet_cb = "None"
    /\ cb_calls = <<>>
    /\ out = <<AckPacket(ev.pkt.seqno, 0, "DATA_RESP")>>

\* the packet kind each public request method sends
RequestKind ==
    [set_led_value |-> "LEDS_CONTROL",
     request_device_reset |-> "DEVICE_RESET",
     request_stored_data |-> "SEND_STORED_DATA",
     request_acquisition_start |-> "ACQUISITION_START",
     request_acquisition_stop |-> "ACQUISITION_STOP",
     request_log_file |-> "LOG_GET"]

\* C17: a public request method called on a connected machine allocates one
\* fresh seqno, enqueues exactly one packet, of its kind and with that seqno,
\* returns the seqno, and leaves the in-flight table mapping the seqno to the
\* packet and the caller's completion callback.
C17_RequestRegistersCallback ==
    [][(ev'.op \in DOMAIN RequestKind /\ ble_conn # "None") =>
        /\ exc' = "none"
        /\ allocated' = Append(allocated, seqno)
        /\ seqno' = seqno + 1
        /\ seqno \notin DOMAIN awaiting
        /\ Len(out') = 1
        /\ out'[1].kind = RequestKind[ev'.op]
        /\ out'[1].seqno = seqno
        /\ ret' = seqno
        /\ seqno \in DOMAIN packets'
        /\ packets'[seqno] = [pkt |-> out'[1], cb |-> "user_cb", fired |-> 0]
        /\ \A k \in DOMAIN packets \ {seqno} :
             k \in DOMAIN packets' /\ packets'[k] = packets[k]]_vars

\* request_log_file returned seqno 2 and the table holds its completion callback
C17_Witness ==
    /\ ev.op = "request_log_file"
    /\ exc = "none"
    /\ ret = 2
    /\ 2 \in DOMAIN packets
    /\ packets[2].pkt.kind = "LOG_GET"
    /\ packets[2].cb = "user_cb"
    /\ logreq_packet_cb = ev.chunk_cb

\* C18: request_acquisition_start sets the data subscription and
\* request_log_file the log subscription to their chunk callback, before the
\* packet is enqueued (also when the enqueue raises); no other operation
\* changes a subscription, and neither request changes the other's.
C18_SubscriptionsPersist ==
    [][/\ datareq_packet_cb' # datareq_packet_cb =>
            ev'.op = "request_acquisition_start"
       /\ logreq_packet_cb' # logreq_packet_cb =>
            ev'.op = "request_log_file"
       /\ ev'.op = "request_acquisition_start" =>
            datareq_packet_cb' = ev'.chunk_cb
       /\ ev'.op = "request_log_file" =>
            logreq_packet_cb' = ev'.chunk_cb]_vars

\* a streamed data chunk reached the data subscriber while the log
\* subscription holds another callback
C18_Witness ==
    /\ ev.op = "on_packet"
    /\ ev.pkt.kind = "DATA_RESP"
    /\ datareq_packet_cb = "chunk_cb_a"
    /\ logreq_packet_cb = "chunk_cb_b"
    /\ cb_calls = <<[cb |-> "chunk_cb_a", data |-> "to_bytes", pkt |-> ev.pkt,
                     enqueued |-> 0]>>

-----------------------------------------------------------------------------
(* The parser: PacketStateMachine over Header.  A buffer is a sequence of   *)
(* bytes; a byte of a frame is the frame it was serialised from and its     *)
(* offset in it, a junk byte is JunkByte.  Two header fields read from a    *)
(* buffer are equal when they were read from the same bytes.                *)

\* the kinds of the frames delivered to the parser
FrameKinds == {"IS_DEVICE_PAIRED", "ACK", "SESSION_START"}

\* a frame whose crc field is not the CRC of its bytes: a corrupted ACK
CorruptFrames == {"ACK/crc"}

\* a CRC-valid frame of a kind that has no packet class: PacketType.PARAMETERS_FILE
UnknownFrames == {"PARAMETERS_FILE"}

\* every frame delivered to the parser
FrameIds == FrameKinds \cup CorruptFrames \cup UnknownFrames

\* header.kind of a frame
KindOfFrame(f) == IF f = "ACK/crc" THEN "ACK" ELSE f

\* the packet classes _find_packet_type_for_buf finds
RegisteredKinds ==
    {"ACK", "SESSION_START", "SESSION_START_RESP", "CONFIG_GET", "DEVICE_RESET",
     "SEND_STORED_DATA", "TECHNICAL_STATUS", "LEDS_CONTROL", "IS_DEVICE_PAIRED",
     "IS_DEVICE_PAIRED_RESP"}

FrameByte(k, i) == [frame |-> k, at |-> i]

JunkByte == [frame |-> "junk", at |-> 0]

\* header.length of a packet of kind k
FrameLen(k) == PacketLen([kind |-> KindOfFrame(k)])

\* pkt.to_bytes() of a packet of kind k
FrameBytes(k) == [i \in 1..FrameLen(k) |-> FrameByte(k, i - 1)]

\* buf[a:b]
Slice(buf, a, b) ==
    IF a >= Min(b, Len(buf)) THEN <<>> ELSE SubSeq(buf, a + 1, Min(b, Len(buf)))

\* the header field at offsets a..b-1 holds what frame k has there
FieldOf(buf, a, b, k) == Slice(buf, a, b) = Slice(FrameBytes(k), a, b)

\* the header field at offsets a..b-1 was serialised from a frame's header
Unpacked(buf, a, b) ==
    buf[a + 1].frame \in FrameIds /\ FieldOf(buf, a, b, buf[a + 1].frame)

\* the buflen field struct.unpack reads at offsets 16..17
buflen_of(buf) ==
    IF Unpacked(buf, 16, 18) THEN FrameLen(buf[17].frame) ELSE 0

\* the kind field struct.unpack reads at offsets 2..3
kind_of(buf) ==
    IF Unpacked(buf, 2, 4) THEN KindOfFrame(buf[3].frame) ELSE "unknown"

\* crc == _crc16(buf[:22] + bytes([0,0]) + buf[24:buflen]): the crc field is
\* that of a frame whose other bytes are these
crc_matches(buf) ==
    /\ Unpacked(buf, 22, 24)
    /\ buf[23].frame \notin CorruptFrames
    /\ FieldOf(buf, 0, 22, buf[23].frame)
    /\ Slice(buf, HEADER_LEN, buflen_of(buf)) =
          Slice(FrameBytes(buf[23].frame), HEADER_LEN, FrameLen(buf[23].frame))

\* Header.unpack_with_checks: struct.unpack needs the 24 header bytes; then
\* the magic is checked, then (unless skipped) the CRC
unpack_with_checks(buf, skip_crc_check) ==
    IF Len(buf) < HEADER_LEN THEN [exc |-> "struct.error"]
    ELSE IF ~Unpacked(buf, 0, 2) THEN [exc |-> "InvalidMagicException"]
    ELSE IF ~skip_crc_check /\ ~crc_matches(buf)
    THEN [exc |-> "CRCMismatchException"]
    ELSE [exc |-> "none", kind |-> kind_of(buf), ts |-> Slice(buf, 4, 12),
          seqno |-> Slice(buf, 12, 16), buflen |-> buflen_of(buf),
          response |-> Slice(buf, 18, 22), crc |-> Slice(buf, 22, 24)]

\* Header.peek_len
peek_len(buf) == unpack_with_checks(buf, TRUE)

\* Header.from_bytes, from l = cls.peek_len(buf) on
unpack_peeked(buf, l) ==
    IF l.exc # "none" THEN l
    ELSE unpack_with_checks(Slice(buf, 0, l.buflen), FALSE)

\* Header.from_bytes
Header_from_bytes(buf) == unpack_peeked(buf, peek_len(buf))

\* BasePacket.from_bytes, from header = Header.from_bytes(buf) on
packet_of_header(cls, buf, header) ==
    IF header.exc # "none" THEN header
    ELSE IF header.kind # cls THEN [exc |-> "ValueError"]
    ELSE [exc |-> "none",
          pkt |-> [kind |-> cls, seqno |-> header.seqno,
                   timestamp |-> header.ts, response |-> header.response,
                   crc |-> header.crc,
                   payload |-> Slice(buf, HEADER_LEN, header.buflen)]]

\* BasePacket.from_bytes of the class registered for kind cls
Packet_from_bytes(cls, buf) == packet_of_header(cls, buf, Header_from_bytes(buf))

\* the loop of _attempt_parse that strings bufs together
RECURSIVE Gather(_, _, _, _)
Gather(bs, parse_buf, num_bufs_consumed, pktlen) ==
    IF Len(parse_buf) < pktlen /\ num_bufs_consumed < Len(bs)
    THEN Gather(bs, parse_buf \o bs[num_bufs_consumed + 1],
                num_bufs_consumed + 1, pktlen)
    ELSE [buf |-> parse_buf, n |-> num_bufs_consumed]

\* _attempt_parse, from pkt = cls.from_bytes(parse_buf) on
parse_packet(g, r) ==
    IF r.exc # "none" THEN [exc |-> r.exc]
    ELSE [exc |-> "none", is_None |-> FALSE, pkt |-> r.pkt, n |-> g.n]

\* _attempt_parse that dequeues nothing for a kind without a packet class
parse_header_keep_unknown(g, hdr) ==
    IF hdr.exc # "none" THEN [exc |-> hdr.exc]
    ELSE IF hdr.kind \notin RegisteredKinds
    THEN [exc |-> "none", is_None |-> TRUE, n |-> 0]
    ELSE parse_packet(g, packet_of_header(hdr.kind, g.buf, hdr))

\* _attempt_parse, from hdr = Header.from_bytes(parse_buf) on
parse_header(g, hdr) ==
    IF hdr.exc # "none" THEN [exc |-> hdr.exc]
    ELSE IF hdr.kind \notin RegisteredKinds
    THEN [exc |-> "none", is_None |-> TRUE, n |-> g.n]
    ELSE parse_packet(g, packet_of_header(hdr.kind, g.buf, hdr))

\* _attempt_parse, from the end of its while loop on
parse_gathered(g, pktlen) ==
    IF Len(g.buf) < pktlen THEN [exc |-> "none", is_None |-> TRUE, n |-> 0]
    ELSE parse_header(g, Header_from_bytes(g.buf))

\* _attempt_parse, from pktlen = Header.peek_len(header_buf) on
parse_peeked(bs, pktlen) ==
    IF pktlen.exc # "none" THEN [exc |-> pktlen.exc]
    ELSE parse_gathered(Gather(bs, bs[1], 1, pktlen.buflen), pktlen.buflen)

\* PacketStateMachine._attempt_parse on two or more bufs
attempt_parse(bs) == parse_peeked(bs, peek_len(bs[1] \o bs[2]))

\* rx_buf's while loop, from the return of _attempt_parse on
RECURSIVE rx_loop(_)
rx_parsed(p, r) ==
    IF r.exc = "InvalidMagicException"
    THEN rx_loop([p EXCEPT !.bufs = Tail(@)])
    ELSE IF r.exc # "none" THEN [p EXCEPT !.exc = r.exc]
    ELSE IF r.is_None
    THEN [p EXCEPT !.bufs = Slice(@, r.n, Len(@))]
    ELSE rx_loop([p EXCEPT !.bufs = Slice(@, r.n, Len(@)),
                           !.rx_pkts = Append(@, r.pkt)])

\* the while loop of PacketStateMachine.rx_buf
rx_loop(p) ==
    IF Len(p.bufs) <= 1 THEN p ELSE rx_parsed(p, attempt_parse(p.bufs))

\* PacketStateMachine.rx_buf
rx_buf(p, buf) ==
    rx_loop([p EXCEPT !.bufs = Append(@, buf)])

\* the lengths of the chunks of a frame, and of the junk chunks
ChunkLens == 1..MTU

JunkLens == 1..(MTU - 1)

\* the variables of the ProtocolMachine and the Band, which the parser alone
\* leaves as they are
machineVars ==
    <<connection_state, session_state, ble_conn, packets, seqno,
      datareq_packet_cb, logreq_packet_cb, write_pending, write_buf,
      outstanding, out, ss_cb, cb_calls, ret, awaiting, allocated, probe,
      wire, acked, sent, ss_log, trace, thread, runner>>

\* one call of rx_buf by the BLE layer's notification
Deliver(buf, f) ==
    LET p == rx_buf([bufs |-> bufs, rx_pkts |-> rx_pkts, exc |-> "none"], buf)
    IN  /\ bufs' = p.bufs
        /\ rx_pkts' = p.rx_pkts
        /\ exc' = p.exc
        /\ ev' = [op |-> "rx_buf", pkt |-> NoPkt]
        /\ feed' = f
        /\ UNCHANGED machineVars

\* a junk chunk arrives before the frame
RxJunk ==
    \E n \in JunkLens :
        /\ feed.frame = "None"
        /\ feed.junk < MaxJunk
        /\ Deliver([i \in 1..n |-> JunkByte], [feed EXCEPT !.junk = @ + 1])

\* the next chunk of the frame arrives; after junk, and to count as cut at
\* the MTU, a chunk has MTU bytes or is the rest of the frame
RxChunk ==
    \E k \in FrameKinds, n \in ChunkLens :
        LET rest == FrameLen(k) - feed.pos
        IN  /\ feed.frame \in {"None", k}
            /\ feed.chunks < MaxChunks
            /\ n <= rest
            /\ feed.junk > 0 => n = Min(MTU, rest)
            /\ Deliver(Slice(FrameBytes(k), feed.pos, feed.pos + n),
                       [feed EXCEPT !.frame = k, !.pos = @ + n,
                                    !.chunks = @ + 1,
                                    !.mtu = @ /\ n = Min(MTU, rest)])

InitParser == InitState(FALSE)

NextParser == RxJunk \/ RxChunk

SpecParser == InitParser /\ [][NextParser]_vars

\* the next chunk of a stream of frames, each cut at the MTU: MTU bytes, or
\* the rest of the frame, after which the next frame may start
RxFrameChunk ==
    \E f \in FrameIds :
        LET rest == FrameLen(f) - feed.pos
            n == Min(MTU, rest)
        IN  /\ feed.frame \in {"None", f}
            /\ Len(feed.done) < MaxFrames
            /\ Deliver(Slice(FrameBytes(f), feed.pos, feed.pos + n),
                       IF n = rest
                       THEN [feed EXCEPT !.frame = "None", !.pos = 0,
                                         !.chunks = 0, !.done = Append(@, f)]
                       ELSE [feed EXCEPT !.frame = f, !.pos = @ + n,
                                         !.chunks = @ + 1])

InitFrames == InitState(FALSE)

NextFrames == RxFrameChunk

SpecFrames == InitFrames /\ [][NextFrames]_vars

-----------------------------------------------------------------------------
(* Claims about the parser, checked under SpecParser.                      *)

\* the packet decoded from the unsplit frame of kind k
Decoded(k) == Packet_from_bytes(k, FrameBytes(k)).pkt

\* C19: when a valid frame is fed to rx_buf in consecutive chunks of 1 to 20
\* bytes, the parser emits nothing before the last chunk and, by the return
\* of the call that delivers the last chunk, exactly one packet, equal to the
\* packet decoded from the unsplit frame.
C19_FragmentedFrameEmittedOnce ==
    (feed.frame # "None" /\ feed.junk = 0) =>
        rx_pkts = IF feed.pos = FrameLen(feed.frame)
                  THEN <<Decoded(feed.frame)>> ELSE <<>>

\* C20: when junk chunks of 1 to 19 bytes precede a valid frame cut into
\* 20-byte chunks, the parser emits nothing but that frame: nothing until the
\* frame's last chunk, then that one packet, with no junk left in its queue.
C20_JunkDroppedFrameEmitted ==
    /\ feed.frame = "None" => rx_pkts = <<>>
    /\ (feed.frame # "None" /\ feed.mtu) =>
         IF feed.pos = FrameLen(feed.frame)
         THEN rx_pkts = <<Decoded(feed.frame)>> /\ bufs = <<>> /\ exc = "none"
         ELSE rx_pkts = <<>>

-----------------------------------------------------------------------------
(* Claims about write failures and the in-flight table, checked under Spec. *)

\* C25: a write failure invokes no completion callback and leaves the
\* in-flight table as it was, the entry of the failing seqno included; a
\* completion callback is invoked only while an ACK is handled, and with the
\* seqno of that ACK.
C25_WriteFailureKeepsEntry ==
    [][/\ ev'.op = "write_failed" => (packets' = packets /\ cb_calls' = <<>>)
       /\ \A i \in 1..Len(cb_calls') :
            IsAckStep /\ cb_calls'[i].seqno = ev'.pkt.seqno]_vars

\* the write of the request with seqno 1 failed with nothing else queued: its
\* entry is still registered and its callback has not fired
C25_Witness ==
    /\ ev.op = "write_failed"
    /\ exc = "none"
    /\ write_buf = <<>>
    /\ 1 \in DOMAIN packets
    /\ packets[1].pkt.kind = "LEDS_CONTROL"
    /\ packets[1].cb = "user_cb"
    /\ packets[1].fired = 0
    /\ seqno = 2

-----------------------------------------------------------------------------
(* Claims about frames the parser cannot decode, checked under SpecFrames.  *)

\* the packets of the valid frames of known kind among the frames fs, in order
Emitted(fs) ==
    LET v == SelectSeq(fs, LAMBDA f : f \in FrameKinds)
    IN  [i \in 1..Len(v) |-> Decoded(v[i])]

\* some frame of fs is in the set S
Among(fs, S) == \E i \in 1..Len(fs) : fs[i] \in S

\* C21: once a complete frame with a wrong CRC was delivered, the parser has
\* dequeued it: every valid frame of known kind delivered, before or after
\* it, was emitted, and between frames nothing is left in the queue.
C21_CorruptFrameSkipped ==
    Among(feed.done, CorruptFrames) =>
        /\ rx_pkts = Emitted(feed.done)
        /\ feed.frame = "None" => bufs = <<>>

C23_RxBufReturnsNormally == ev.op = "rx_buf" => exc = "none"

-----------------------------------------------------------------------------
(* The CRC (code/packets.py, _crc16).  A byte is a number in 0..255 and a  *)
(* buffer a sequence of bytes.  Python's s is an unbounded integer that    *)
(* grows by one bit per step; only its bit 15 is read and the result keeps *)
(* its low 16 bits, so s is carried here with its low 30 bits.             *)

\* a ^ b on naturals
RECURSIVE Xor(_, _)
Xor(a, b) ==
    IF a = 0 THEN b
    ELSE IF b = 0 THEN a
    ELSE ((a + b) % 2) + 2 * Xor(a \div 2, b \div 2)

\* bool(x & m) for a one-bit mask m
Bit(x, m) == (x \div m) % 2 = 1

\* s <<= 1
Shl1(s) == (2 * s) % 1073741824

\* one turn of the while loop: the bit m of the byte b
crc_step(s, b, m) ==
    IF Bit(s, 32768) # Bit(b, m) THEN Xor(Shl1(s), 4129) ELSE Shl1(s)

\* the while loop, from the mask m down to 1
crc_bits[s \in Nat, b \in Nat, m \in Nat] ==
    IF m = 0 THEN s ELSE crc_bits[crc_step(s, b, m), b, m \div 2]

\* the for loop: the result without its mask
crc_bytes[buf \in Seq(Nat), s \in Nat] ==
    IF buf = <<>> THEN s ELSE crc_bytes[Tail(buf), crc_bits[s, Head(buf), 128]]

_crc16_no_mask(buf, s) == crc_bytes[buf, s]

_crc16(buf, s) == crc_bytes[buf, s] % 65536

\* the chunks a caller checksums one after the other: the pieces of the test
\* vectors "", "a", "aaaa", "baaa", "bbbbbb", "your mom", and bytes with the
\* high bit set
CrcChunks ==
    { <<>>, <<97>>, <<97, 97>>, <<98>>, <<98, 97>>, <<98, 98, 98>>,
      <<121, 111, 117, 114>>, <<32, 109, 111, 109>>, <<0>>, <<255>>,
      <<128, 1>> }

\* all the bytes of the chunks cs, in order
RECURSIVE Flatten(_)
Flatten(cs) == IF cs = <<>> THEN <<>> ELSE Head(cs) \o Flatten(Tail(cs))

\* one call of _crc16 on the next chunk, seeded with the previous result
\* (the first call takes the default seed)
CrcChunk ==
    \E b \in CrcChunks :
        LET seed == IF ev.op = "init" THEN 65535 ELSE ret
        IN  /\ Len(bufs) < MaxCrcChunks
            /\ bufs' = Append(bufs, b)
            /\ ret' = _crc16(b, seed)
            /\ ev' = [op |-> "_crc16", pkt |-> NoPkt, buf |-> b, s |-> seed]
            /\ UNCHANGED <<connection_state, session_state, ble_conn, packets,
                           seqno, datareq_packet_cb, logreq_packet_cb,
                           write_pending, write_buf, outstanding, exc, out,
                           ss_cb, cb_calls, awaiting, allocated, probe, wire,
                           acked, sent, ss_log, trace, rx_pkts, feed, thread, runner>>

InitCrc == InitState(FALSE)

NextCrc == CrcChunk

SpecCrc == InitCrc /\ [][NextCrc]_vars

-----------------------------------------------------------------------------
(* Claim about the CRC, checked under SpecCrc.                             *)

\* CRC-16/CCITT-FALSE as its parameters define it: polynomial 0x1021, the
\* byte enters at the top of the register, most significant bit first, no
\* reflection, no final XOR
CcittShift[r \in Nat, n \in Nat] ==
    IF n = 0 THEN r
    ELSE CcittShift[IF r >= 32768 THEN Xor((2 * r) % 65536, 4129) ELSE 2 * r,
                    n - 1]

CcittFalse[buf \in Seq(Nat), r \in Nat] ==
    IF buf = <<>> THEN r
    ELSE CcittFalse[Tail(buf), CcittShift[Xor(r, 256 * Head(buf)), 8]]

\* the test vectors
CrcVectors ==
    { [buf |-> <<>>, crc |-> 65535],
      [buf |-> <<97>>, crc |-> 40311],
      [buf |-> <<97, 97, 97, 97>>, crc |-> 17249],
      [buf |-> <<98, 97, 97, 97>>, crc |-> 55485],
      [buf |-> <<98, 98, 98, 98, 98, 98>>, crc |-> 59146],
      [buf |-> <<121, 111, 117, 114, 32, 109, 111, 109>>, crc |-> 63035] }

\* C27: _crc16 is CRC-16/CCITT-FALSE with a 16-bit result: the checksum of
\* chunks chained through the seed is the checksum of their concatenation
\* from the default seed, it is the CCITT-FALSE value, it is within 16 bits,
\* and on each test vector it is the reference value.
C27_CrcIsCcittFalseAndChains ==
    ev.op = "_crc16" =>
        /\ ret \in 0..65535
        /\ ret = _crc16(Flatten(bufs), 65535)
        /\ ret = CcittFalse[Flatten(bufs), 65535]
        /\ \A v \in CrcVectors : Flatten(bufs) = v.buf => ret = v.crc

\* "your mom" was checksummed in two chained calls
C27_Witness ==
    /\ bufs = << <<121, 111, 117, 114>>, <<32, 109, 111, 109>> >>
    /\ ev.s # 65535
    /\ ret = 63035

-----------------------------------------------------------------------------
(* The header and packet codec at the level of bytes (code/packets.py,     *)
(* Header and BasePacket).  A header is the record of its six attributes,  *)
(* a packet object the record of its class, its header and its payload     *)
(* attributes.  Field values are kept below 2^31; a function returns a     *)
(* record whose exc names the exception it raised, or "none".              *)

\* Header.MAGIC
MAGIC == 48059

\* struct.pack of v in n bytes, little-endian ("<") and big-endian (">")
RECURSIVE LE(_, _)
LE(v, n) == IF n = 0 THEN <<>> ELSE <<v % 256>> \o LE(v \div 256, n - 1)

RECURSIVE BE(_, _)
BE(v, n) == IF n = 0 THEN <<>> ELSE BE(v \div 256, n - 1) \o <<v % 256>>

\* struct.unpack of one field
RECURSIVE FromLE(_)
FromLE(buf) == IF buf = <<>> THEN 0 ELSE Head(buf) + 256 * FromLE(Tail(buf))

RECURSIVE FromBE(_)
FromBE(buf) ==
    IF buf = <<>> THEN 0
    ELSE buf[Len(buf)] + 256 * FromBE(SubSeq(buf, 1, Len(buf) - 1))

\* Header.__init__
Header(kind, timestamp, seqno_, length, response) ==
    [kind |-> kind, timestamp |-> timestamp, seqno |-> seqno_,
     length |-> length, response |-> response, crc |-> 0]

\* struct.pack("<HHQLHLH", MAGIC, kind, timestamp, seqno, length, response, 0)
HeaderPacked(h) ==
    LE(MAGIC, 2) \o LE(h.kind, 2) \o LE(h.timestamp, 8) \o LE(h.seqno, 4)
        \o LE(h.length, 2) \o LE(h.response, 4) \o LE(0, 2)

\* header[:-2] + crc_pk, followed by the payload
WithCrc(header_buf, crc, payload_buf) ==
    Slice(header_buf, 0, 22) \o LE(crc, 2) \o payload_buf

\* Header.to_bytes(): the bytes, and the header with the crc it has set
Header_to_bytes(h) == WithCrc(HeaderPacked(h), _crc16(HeaderPacked(h), 65535), <<>>)

Header_after_to_bytes(h) == [h EXCEPT !.crc = _crc16(HeaderPacked(h), 65535)]

\* bufp of unpack_with_checks: the crc field zeroed, cut at buflen
bufp(buf) ==
    Slice(buf, 0, 22) \o <<0, 0>> \o Slice(buf, 24, FromLE(Slice(buf, 16, 18)))

\* the tuple unpack_with_checks returns
HeaderFields(buf) ==
    [exc |-> "none",
     kind |-> FromLE(Slice(buf, 2, 4)),
     ts |-> FromLE(Slice(buf, 4, 12)),
     seqno |-> FromLE(Slice(buf, 12, 16)),
     buflen |-> FromLE(Slice(buf, 16, 18)),
     response |-> FromLE(Slice(buf, 18, 22)),
     crc |-> FromLE(Slice(buf, 22, 24))]

\* Header.unpack_with_checks: struct.unpack needs 24 bytes
unpack_with_checks_le(buf, skip_crc_check) ==
    IF Len(buf) < HEADER_LEN THEN [exc |-> "struct.error"]
    ELSE IF FromLE(Slice(buf, 0, 2)) # MAGIC
    THEN [exc |-> "InvalidMagicException"]
    ELSE IF ~skip_crc_check /\ FromLE(Slice(buf, 22, 24)) # _crc16(bufp(buf), 65535)
    THEN [exc |-> "CRCMismatchException"]
    ELSE HeaderFields(buf)

\* peek_len without skip_crc_check
peek_len_le_checks_crc(buf) ==
    LET f == unpack_with_checks_le(buf, FALSE)
    IN  IF f.exc # "none" THEN f ELSE [exc |-> "none", buflen |-> f.buflen]

\* Header.peek_len: buflen of the tuple unpacked with skip_crc_check
peek_len_le(buf) ==
    LET f == unpack_with_checks_le(buf, TRUE)
    IN  IF f.exc # "none" THEN f ELSE [exc |-> "none", buflen |-> f.buflen]

\* Header(kind, ts, seqno, buflen, response) with result.crc = crc
header_of_fields(f) ==
    IF f.exc # "none" THEN f
    ELSE [exc |-> "none",
          header |-> [Header(f.kind, f.ts, f.seqno, f.buflen, f.response)
                        EXCEPT !.crc = f.crc]]

\* Header.from_bytes with l = peek_len(buf)
from_bytes_peeked(buf, l) ==
    IF l.exc # "none" THEN l
    ELSE header_of_fields(unpack_with_checks_le(Slice(buf, 0, l.buflen), FALSE))

\* Header.from_bytes
Header_from_bytes_le(buf) == from_bytes_peeked(buf, peek_len_le(buf))

\* COMMAND of each packet class (PacketType)
COMMAND(cls) ==
    CASE cls = "ACK" -> 0
      [] cls = "SESSION_START" -> 1
      [] cls = "SESSION_START_RESP" -> 2
      [] cls = "CONFIG_GET" -> 3
      [] cls = "DEVICE_RESET" -> 11
      [] cls = "SEND_STORED_DATA" -> 16
      [] cls = "TECHNICAL_STATUS" -> 21
      [] cls = "LEDS_CONTROL" -> 35
      [] cls = "IS_DEVICE_PAIRED" -> 42
      [] cls = "IS_DEVICE_PAIRED_RESP" -> 43

\* the length each class's __init__ passes to BasePacket.__init__
InitLength(cls, attrs) ==
    CASE cls = "ACK" -> 24 + 5
      [] cls = "SESSION_START" -> 24 + 5 + Len(attrs.version_bytes) + 1
      [] cls = "SESSION_START_RESP" -> 24 + 512
      [] cls \in {"LEDS_CONTROL", "DEVICE_RESET"} -> 24 + 1
      [] cls = "IS_DEVICE_PAIRED_RESP" -> 24 + 5
      [] OTHER -> 24

\* cls.__init__(seqno, <payload attributes>, timestamp, response, crc):
\* BasePacket.__init__ sets header.crc only "if crc"
Packet_init(cls, seqno_, attrs, timestamp, response, crc) ==
    [cls |-> cls,
     header |-> [Header(COMMAND(cls), timestamp, seqno_, InitLength(cls, attrs),
                        response) EXCEPT !.crc = crc],
     attrs |-> attrs]

\* the payload attributes of cls(seqno, timestamp=, response=, crc=), as
\* from_bytes builds it: attributes left None are not listed
HollowAttrs(cls) ==
    CASE cls = "ACK" -> [unk_3_5 |-> 0]
      [] cls = "SESSION_START_RESP" -> [config |-> [i \in 1..512 |-> 0]]
      [] cls = "IS_DEVICE_PAIRED_RESP" -> [value |-> 0]
      [] OTHER -> <<>>

\* payload()
payload(cls, attrs) ==
    CASE cls = "ACK" ->
             BE(attrs.orig_kind, 2) \o <<attrs.status>> \o BE(attrs.unk_3_5, 2)
      [] cls = "SESSION_START" ->
             BE(attrs.host_id, 4) \o <<attrs.mode_num>> \o attrs.version_bytes \o <<0>>
      [] cls = "SESSION_START_RESP" -> attrs.config
      [] cls \in {"LEDS_CONTROL", "DEVICE_RESET"} -> <<attrs.value>>
      [] cls = "IS_DEVICE_PAIRED_RESP" -> BE(42, 2) \o BE(attrs.value, 2) \o <<0>>
      [] OTHER -> <<>>

\* update_payload(buf): the attributes after it, or the exception of
\* struct.unpack or of buf[0]
update_payload(cls, attrs, buf) ==
    CASE cls = "ACK" ->
             IF Len(buf) # 5 THEN [exc |-> "struct.error"]
             ELSE [exc |-> "none",
                   attrs |-> [orig_kind |-> FromBE(Slice(buf, 0, 2)),
                              status |-> buf[3],
                              unk_3_5 |-> FromBE(Slice(buf, 3, 5))]]
      [] cls = "SESSION_START" ->
             IF Len(buf) < 5 THEN [exc |-> "struct.error"]
             ELSE [exc |-> "none",
                   attrs |-> [host_id |-> FromBE(Slice(buf, 0, 4)),
                              mode_num |-> buf[5],
                              version_bytes |-> Slice(buf, 5, Len(buf) - 1)]]
      [] cls = "SESSION_START_RESP" -> [exc |-> "none", attrs |-> [config |-> buf]]
      [] cls \in {"LEDS_CONTROL", "DEVICE_RESET"} ->
             IF buf = <<>> THEN [exc |-> "IndexError"]
             ELSE [exc |-> "none", attrs |-> [value |-> buf[1]]]
      [] cls = "IS_DEVICE_PAIRED_RESP" ->
             IF Len(Slice(buf, 2, 4)) # 2 THEN [exc |-> "struct.error"]
             ELSE [exc |-> "none", attrs |-> [value |-> FromBE(Slice(buf, 2, 4))]]
      [] OTHER -> [exc |-> "none", attrs |-> attrs]

\* crc_buf of BasePacket.to_bytes: the header with a zero crc, then the payload
crc_buf(pkt) == HeaderPacked(pkt.header) \o payload(pkt.cls, pkt.attrs)

\* BasePacket.to_bytes: the bytes, and the packet with the crc it has set
BasePacket_to_bytes(pkt) ==
    WithCrc(HeaderPacked(pkt.header), _crc16(crc_buf(pkt), 65535),
            payload(pkt.cls, pkt.attrs))

Packet_after_to_bytes(pkt) ==
    [pkt EXCEPT !.header.crc = _crc16(crc_buf(pkt), 65535)]

\* result = cls(header.seqno, timestamp=, response=, crc=): a TypeError for
\* SessionStartPacket, whose __init__ requires host_id, mode_num and
\* version_string
hollow(cls, header) ==
    IF cls = "SESSION_START" THEN [exc |-> "TypeError"]
    ELSE [exc |-> "none",
          pkt |-> Packet_init(cls, header.seqno, HollowAttrs(cls),
                              header.timestamp, header.response, header.crc)]

\* result.update_payload(buf[24:header.length])
updated(cls, result, payload_buf) ==
    IF result.exc # "none" THEN result
    ELSE IF update_payload(cls, result.pkt.attrs, payload_buf).exc # "none"
    THEN [exc |-> update_payload(cls, result.pkt.attrs, payload_buf).exc]
    ELSE [exc |-> "none",
          pkt |-> [result.pkt EXCEPT
                     !.attrs = update_payload(cls, @, payload_buf).attrs]]

\* BasePacket.from_bytes, from h = Header.from_bytes(buf)
from_bytes_of_header(cls, buf, h) ==
    IF h.exc # "none" THEN h
    ELSE IF h.header.kind # COMMAND(cls) THEN [exc |-> "ValueError"]
    ELSE updated(cls, hollow(cls, h.header),
                 Slice(buf, HEADER_LEN, h.header.length))

\* BasePacket.from_bytes
BasePacket_from_bytes(cls, buf) ==
    from_bytes_of_header(cls, buf, Header_from_bytes_le(buf))

\* the header attributes the round trips are run on: the ends of each field
\* (below 2^31) and the values of the tests
Headers ==
    { Header(k, ts, s, l, r) :
        k \in {0, 42, 65535}, ts \in {0, 1, 2147483647},
        s \in {0, 22, 2147483647}, l \in {0, 23, 24, 29, 65535},
        r \in {0, 19} }

\* the payload attributes the packets are built with, for each class
PayloadAttrs(cls) ==
    CASE cls = "ACK" ->
             { [orig_kind |-> k, status |-> st, unk_3_5 |-> 0] :
                 k \in {42, 61455}, st \in {0, 205} }
      [] cls = "SESSION_START" ->
             { [host_id |-> 422065990, mode_num |-> m, version_bytes |-> v] :
                 m \in {0, 1}, v \in {<<>>, <<52, 46, 50>>} }
      [] cls = "SESSION_START_RESP" ->
             { [config |-> [i \in 1..512 |-> 0]],
               [config |-> [i \in 1..512 |-> i % 256]] }
      [] cls \in {"LEDS_CONTROL", "DEVICE_RESET"} ->
             { [value |-> v] : v \in {0, 7, 255} }
      [] cls = "IS_DEVICE_PAIRED_RESP" ->
             { [value |-> v] : v \in {0, 1, 65535} }
      [] OTHER -> { <<>> }

\* a packet of class cls as a caller builds it
Packets(cls) ==
    { Packet_init(cls, s, a, ts, r, 0) :
        s \in {0, 4660}, a \in PayloadAttrs(cls), ts \in {0, 39612},
        r \in {0, 19} }

\* a serialised header or packet, with the header whose crc it carries
Frames ==
    { [hdr |-> Header_after_to_bytes(h), buf |-> Header_to_bytes(h)] :
        h \in Headers }
    \cup
    { [hdr |-> Packet_after_to_bytes(pkt).header, buf |-> BasePacket_to_bytes(pkt)] :
        pkt \in Packets("ACK") \cup Packets("IS_DEVICE_PAIRED") }

\* the buffer with the lowest bit of the second byte of its magic, or of
\* the first byte of its crc, or of both, flipped
Damaged(buf, d) ==
    [i \in 1..Len(buf) |->
        IF \/ i = 2 /\ d \in {"magic", "magic+crc"}
           \/ i = 23 /\ d \in {"crc", "magic+crc"}
        THEN (IF buf[i] % 2 = 0 THEN buf[i] + 1 ELSE buf[i] - 1)
        ELSE buf[i]]

\* one call of the codec on a fresh input: e describes the call, r is what
\* it returned
Codec(e, r) ==
    /\ ev.op = "init"
    /\ ev' = e
    /\ ret' = r
    /\ exc' = r.exc
    /\ UNCHANGED <<connection_state, session_state, ble_conn, packets, seqno,
                   datareq_packet_cb, logreq_packet_cb, write_pending,
                   write_buf, outstanding, out, ss_cb, cb_calls, awaiting,
                   allocated, probe, wire, acked, sent, ss_log, trace, bufs,
                   rx_pkts, feed, thread, runner>>

\* Header.from_bytes(hdr.to_bytes())
HeaderRoundTrip ==
    \E h \in Headers :
        Codec([op |-> "Header.roundtrip", pkt |-> NoPkt,
               hdr |-> Header_after_to_bytes(h), buf |-> Header_to_bytes(h)],
              Header_from_bytes_le(Header_to_bytes(h)))

\* cls.from_bytes(pkt.to_bytes())
PacketRoundTrip ==
    \E cls \in RegisteredKinds :
        \E p \in Packets(cls) :
            Codec([op |-> "Packet.roundtrip", pkt |-> NoPkt, cls |-> cls,
                   sent |-> Packet_after_to_bytes(p), buf |-> BasePacket_to_bytes(p)],
                  BasePacket_from_bytes(cls, BasePacket_to_bytes(p)))

\* Header.peek_len on a serialised header or packet, damaged or not
PeekLen ==
    \E f \in Frames, d \in {"none", "magic", "crc", "magic+crc"} :
        Codec([op |-> "Header.peek_len", pkt |-> NoPkt, hdr |-> f.hdr,
               damage |-> d, buf |-> Damaged(f.buf, d)],
              peek_len_le(Damaged(f.buf, d)))

\* Header.from_bytes on a serialised header or packet, damaged or not
HeaderFromBytes ==
    \E f \in Frames, d \in {"none", "magic", "crc", "magic+crc"} :
        Codec([op |-> "Header.from_bytes", pkt |-> NoPkt, hdr |-> f.hdr,
               damage |-> d, buf |-> Damaged(f.buf, d)],
              Header_from_bytes_le(Damaged(f.buf, d)))

InitCodec == InitState(FALSE)

NextCodec == HeaderRoundTrip \/ PacketRoundTrip \/ PeekLen \/ HeaderFromBytes

SpecCodec == InitCodec /\ [][NextCodec]_vars

-----------------------------------------------------------------------------
(* Claims about the codec, checked under SpecCodec.                        *)

\* C28: a header built from values within the field widths comes back from
\* Header.from_bytes(hdr.to_bytes()) without an exception and with equal
\* kind, timestamp, seqno, length, response and crc.
C28_HeaderRoundTrip ==
    ev.op = "Header.roundtrip" =>
        /\ ret.exc = "none"
        /\ ret.header = ev.hdr

\* C29: a packet of a registered class comes back from
\* cls.from_bytes(pkt.to_bytes()) without an exception and with equal header
\* fields, length and crc included, and equal payload attributes.
C29_PacketRoundTrip ==
    ev.op = "Packet.roundtrip" =>
        /\ ret.exc = "none"
        /\ ret.pkt.header = ev.sent.header
        /\ ret.pkt.attrs = ev.sent.attrs

\* C30: peek_len returns the declared length of a 24-byte header with the
\* magic 0xBBBB whatever its crc, and raises InvalidMagicException otherwise;
\* Header.from_bytes on a frame (a header declaring at least its own 24
\* bytes) with the magic and a wrong crc raises CRCMismatchException, and
\* with the wrong magic InvalidMagicException whatever the crc.
C30_MagicBeforeCrc ==
    /\ ev.op = "Header.peek_len" =>
          IF ev.damage \in {"none", "crc"}
          THEN ret.exc = "none" /\ ret.buflen = ev.hdr.length
          ELSE ret.exc = "InvalidMagicException"
    /\ (ev.op = "Header.from_bytes" /\ ev.hdr.length >= HEADER_LEN) =>
          ret.exc = CASE ev.damage = "none" -> "none"
                      [] ev.damage = "crc" -> "CRCMismatchException"
                      [] OTHER -> "InvalidMagicException"

\* from_bytes met a wrong magic and a wrong crc in a 29-byte ACK frame, and
\* raised for the magic
C30_Witness ==
    /\ ev.op = "Header.from_bytes"
    /\ ev.damage = "magic+crc"
    /\ Len(ev.buf) = 29
    /\ ev.hdr.length = 29
    /\ ret.exc = "InvalidMagicException"

-----------------------------------------------------------------------------
(* Reconnection of the same Band (sleepyband/band.py, disconnect_succeeded; *)
(* demo_classes.py, BaseRunner.loop reconnects the device it holds).  The  *)
(* BLE layer reports the fate of a write issued on the current connection; *)
(* a write still unanswered when the link drops is never answered.         *)

\* Band.connected: services are resolved and the link has not dropped since
connected == ble_conn = "band" /\ ev.op # "disconnect_succeeded"

\* Band.disconnect_succeeded: it touches neither write_buf nor write_pending
Disconnect ==
    /\ connected
    /\ outstanding' = 0
    /\ ev' = [op |-> "disconnect_succeeded", pkt |-> NoPkt]
    /\ exc' = "none"
    /\ out' = <<>>
    /\ ss_cb' = <<>>
    /\ cb_calls' = <<>>
    /\ ret' = "None"
    /\ UNCHANGED <<connection_state, session_state, ble_conn, packets, seqno,
                   datareq_packet_cb, logreq_packet_cb, write_pending,
                   write_buf, awaiting, allocated, probe, wire, acked, sent,
                   ss_log, trace, bufs, rx_pkts, feed, thread, runner>>

\* Band.services_resolved on a first connection or after device.connect()
\* of BaseRunner.loop: conn_cb(self) is on_connect_success
Connect == ~connected /\ OnConnectSuccess

InitReconnect == InitState(FALSE)

NextReconnect ==
    \/ Connect
    \/ Disconnect
    \/ (connected /\ OnIsDevicePairedResp)
    \/ (connected /\ OnSessionStartResp)
    \/ (connected /\ OnAck)
    \/ WriteSucceeded
    \/ WriteFailed

\* every write issued on the current connection is eventually answered
SpecReconnect ==
    /\ InitReconnect
    /\ [][NextReconnect]_vars
    /\ WF_vars(WriteSucceeded \/ WriteFailed)

-----------------------------------------------------------------------------
(* Claim about reconnection, checked under SpecReconnect.                  *)

\* a slice of IS_DEVICE_PAIRED(0) is in the hands of the transport
IdpSliceWritten ==
    /\ outstanding > 0
    /\ write_buf # <<>>
    /\ Head(write_buf).pkt.kind = "IS_DEVICE_PAIRED"
    /\ Head(write_buf).seqno = 0

ConnectHandled == ev.op = "on_connect_success" /\ exc = "none"

\* C24: each on_connect_success moves the session to IDP_PENDING, installs
\* handle_idp_ack under seqno 0, and leads to a slice of IS_DEVICE_PAIRED(0)
\* being written to the transport, whatever transmit state the previous
\* connection left.
C24_ConnectLeadsToIdpWritten ==
    /\ [](ConnectHandled =>
            /\ session_state = "IDP_PENDING"
            /\ 0 \in DOMAIN packets
            /\ packets[0].cb = "handle_idp_ack")
    /\ (ConnectHandled ~> IdpSliceWritten)

-----------------------------------------------------------------------------
(* Band under two threads.  find_band starts the GATT manager on a thread  *)
(* of its own (band.py 144-158), where the BLE layer's write callbacks     *)
(* run, while the runner calls the request methods, and so Band.enqueue,   *)
(* from its own thread (demo_classes.py 57-73).  Band takes no lock: the   *)
(* two threads interleave between any two accesses of write_buf and        *)
(* write_pending.  Each action below is one statement of band.py 204-278   *)
(* executed by one thread; thread[t].pc is the statement t executes next,  *)
(* thread[t].buf and thread[t].seqno are its locals.  thread.queued,       *)
(* thread.written and thread.purged record the slices appended to          *)
(* write_buf, handed to rx_char.write_value, and popped by the loop of     *)
(* characteristic_write_value_failed.                                      *)

Threads == {"caller", "transport"}

\* the exception e leaves the Band method thread t is in
Throw(st, t, e) ==
    [st EXCEPT !.exc = e, !.thread[t].exc = e, !.thread[t].pc = "idle",
               !.thread[t].buf = NoSlice, !.thread[t].todo = <<>>]

\* the event of a statement of the Band method op
Stmt(op) == [op |-> op, pkt |-> NoPkt]

\* _attempt_transmit, line 210: if self.write_pending: raise ValueError(...)
AtCheck(t) ==
    /\ thread[t].pc = "at_check"
    /\ Commit(IF write_pending THEN Throw(Begin, t, "ValueError")
              ELSE [Begin EXCEPT !.thread[t].pc = "at_read"],
              Stmt("_attempt_transmit"))

\* line 213: buf = self.write_buf[0][0]
AtRead(t) ==
    /\ thread[t].pc = "at_read"
    /\ Commit(IF write_buf = <<>> THEN Throw(Begin, t, "IndexError")
              ELSE [Begin EXCEPT !.thread[t].buf = Head(write_buf),
                                 !.thread[t].pc = "at_write"],
              Stmt("_attempt_transmit"))

\* line 214: self.rx_char.write_value(buf)
AtWrite(t) ==
    /\ thread[t].pc = "at_write"
    /\ Commit([Begin EXCEPT !.outstanding = @ + 1,
                            !.thread.written = @ \cup {thread[t].buf},
                            !.thread[t].pc = "at_set"],
              Stmt("_attempt_transmit"))

\* line 221: self.write_pending = True, and the return to the caller
AtSet(t) ==
    /\ thread[t].pc = "at_set"
    /\ Commit([Begin EXCEPT !.write_pending = TRUE,
                            !.thread[t].buf = NoSlice,
                            !.thread[t].pc = "idle"],
              Stmt("_attempt_transmit"))

\* the packets the runner's thread enqueues: the bring-up's first request and
\* a set_led_value of the runner's loop
ThreadPkts == { IsDevicePairedPacket(0), LEDPacket(1, 1) }

\* the runner's thread enters band.enqueue(pkt), lines 230-231:
\* buf = pkt.to_bytes(); seqno = pkt.header.seqno
EnqueueCall ==
    /\ thread.caller.pc = "idle"
    /\ thread.calls < MaxCalls
    /\ \E p \in ThreadPkts :
         LET pkt == [p EXCEPT !.id = thread.calls + 1]
         IN  Commit([Begin EXCEPT !.thread.calls = @ + 1,
                                  !.thread.caller.exc = "none",
                                  !.thread.caller.todo = Slices(pkt),
                                  !.thread.caller.seqno = pkt.seqno,
                                  !.thread.caller.pc = "append"],
                    [op |-> "enqueue", pkt |-> pkt])

\* lines 233-235: one self.write_buf.append((buf[i0:i1], seqno)) of the loop
EnqueueAppend ==
    /\ thread.caller.pc = "append"
    /\ LET sl == Head(thread.caller.todo)
       IN  Commit([Begin EXCEPT !.write_buf = Append(@, sl),
                                !.thread.queued = @ \cup {sl},
                                !.thread.caller.todo = Tail(@),
                                !.thread.caller.pc =
                                    IF Tail(thread.caller.todo) = <<>>
                                    THEN "if_pending" ELSE "append"],
                  Stmt("enqueue"))

\* line 237: if not self.write_pending: self._attempt_transmit()
EnqueueTest ==
    /\ thread.caller.pc = "if_pending"
    /\ Commit([Begin EXCEPT !.thread.caller.pc =
                                IF ~write_pending THEN "at_check" ELSE "idle"],
              Stmt("enqueue"))

\* the BLE layer answers an outstanding write with success: the GATT thread
\* enters characteristic_write_value_succeeded, line 250:
\* self.write_pending = False
SucceededCall ==
    /\ thread.transport.pc = "idle"
    /\ outstanding > 0
    /\ Commit([Begin EXCEPT !.outstanding = @ - 1,
                            !.write_pending = FALSE,
                            !.thread.transport.exc = "none",
                            !.thread.transport.pc = "s_pop"],
              Stmt("write_succeeded"))

\* line 251: self.write_buf.pop(0)
SucceededPop ==
    /\ thread.transport.pc = "s_pop"
    /\ Commit(IF write_buf = <<>> THEN Throw(Begin, "transport", "IndexError")
              ELSE [Begin EXCEPT !.write_buf = Tail(@),
                                 !.thread.transport.pc = "if_buf"],
              Stmt("write_succeeded"))

\* lines 253 and 276: if self.write_buf: self._attempt_transmit()
TransmitNext ==
    /\ thread.transport.pc = "if_buf"
    /\ Commit([Begin EXCEPT !.thread.transport.pc =
                                IF write_buf # <<>> THEN "at_check" ELSE "idle"],
              Stmt("write_completed"))

\* the BLE layer answers an outstanding write with a failure: the GATT
\* thread enters characteristic_write_value_failed, line 268:
\* seqno = self.write_buf[0][1]
FailedCall ==
    /\ thread.transport.pc = "idle"
    /\ outstanding > 0
    /\ LET a == [Begin EXCEPT !.outstanding = @ - 1,
                              !.thread.transport.exc = "none"]
       IN  Commit(IF write_buf = <<>> THEN Throw(a, "transport", "IndexError")
                  ELSE [a EXCEPT !.thread.transport.seqno = Head(write_buf).seqno,
                                 !.thread.transport.pc = "f_loop"],
                  Stmt("write_failed"))

\* lines 271-272: one turn of
\* while self.write_buf and self.write_buf[0][1] == seqno: self.write_buf.pop(0)
FailedLoop ==
    /\ thread.transport.pc = "f_loop"
    /\ Commit(IF write_buf # <<>> /\ Head(write_buf).seqno = thread.transport.seqno
              THEN [Begin EXCEPT !.write_buf = Tail(@),
                                 !.thread.purged = @ \cup {Head(write_buf)}]
              ELSE [Begin EXCEPT !.thread.transport.pc = "f_clear"],
              Stmt("write_failed"))

\* line 274: self.write_pending = False
FailedClear ==
    /\ thread.transport.pc = "f_clear"
    /\ Commit([Begin EXCEPT !.write_pending = FALSE,
                            !.thread.transport.pc = "if_buf"],
              Stmt("write_failed"))

\* the statements of the runner's thread inside enqueue
CallerStep ==
    \/ EnqueueAppend
    \/ EnqueueTest
    \/ AtCheck("caller")
    \/ AtRead("caller")
    \/ AtWrite("caller")
    \/ AtSet("caller")

\* the statements of the GATT thread, the delivery of a write's answer included
TransportStep ==
    \/ SucceededCall
    \/ SucceededPop
    \/ FailedCall
    \/ FailedLoop
    \/ FailedClear
    \/ TransmitNext
    \/ AtCheck("transport")
    \/ AtRead("transport")
    \/ AtWrite("transport")
    \/ AtSet("transport")

InitThreads == InitState(FALSE)

NextThreads == EnqueueCall \/ CallerStep \/ TransportStep

\* both threads are scheduled, and every write handed to the BLE layer is
\* answered
SpecThreads ==
    /\ InitThreads
    /\ [][NextThreads]_vars
    /\ WF_vars(CallerStep)
    /\ WF_vars(TransportStep)

\* the slices a caller can enqueue
ThreadSlices ==
    UNION { { Slices([p EXCEPT !.id = i])[k] : k \in DOMAIN Slices(p) } :
            p \in ThreadPkts, i \in 1..MaxCalls }

\* C26: with enqueue on the caller's thread and the write callbacks on the
\* transport's thread, every slice appended to write_buf is eventually
\* handed to rx_char.write_value, unless the failure loop purges it
C26_QueuedSliceIsWritten ==
    \A sl \in ThreadSlices :
        (sl \in thread.queued) ~> (sl \in thread.written \/ sl \in thread.purged)

\* a thread hands a slice to rx_char.write_value
WritesSlice == outstanding' = outstanding + 1

\* the success callback pops the head of write_buf
PopsHead == ev'.op = "write_succeeded" /\ write_buf' = Tail(write_buf)

\* C38: in every interleaving of enqueue on the caller's thread with the
\* write callbacks on the transport's thread, at most one write is
\* outstanding, a slice handed to rx_char.write_value was not written
\* before, and the slice the success callback pops has been written
C38_ThreadsKeepSingleWrite ==
    /\ [](outstanding <= 1)
    /\ [][WritesSlice => thread'.written # thread.written]_vars
    /\ [][write_buf # <<>> /\ PopsHead => Head(write_buf) \in thread.written]_vars

-----------------------------------------------------------------------------
(* The connection state across connections (protocol_machine.py 49-57,     *)
(* 236-249; band.py 173-188).                                              *)

\* the step assigns CONNECTED to a connection_state that was not CONNECTED
BecomesConnected ==
    /\ connection_state # "CONNECTED"
    /\ connection_state' = "CONNECTED"

\* C31: connection_state becomes CONNECTED only from CONNECTING, and it is
\* DISCONNECTED whenever the BLE link is down
C31_ConnectionStateFollowsLink ==
    /\ [][BecomesConnected => connection_state = "CONNECTING"]_vars
    /\ [](~connected => connection_state = "DISCONNECTED")

-----------------------------------------------------------------------------
(* A request method on the runner's thread against the GATT thread          *)
(* (protocol_machine.py 89-92, 221-223).  _enqueue is two statements: the   *)
(* call of Band.enqueue, which may hand the first slice to the transport,   *)
(* and the store into self.packets.  The GATT thread runs the write         *)
(* callback and on_packet between them.  The device ACKs a request once,    *)
(* after the last of its slices was written.                                *)

\* set_led_value up to line 222: seqno = self._seqno();
\* pkt = LEDPacket(seqno, value); self.ble_conn.enqueue(pkt)
SetLedValueCall ==
    /\ thread.caller.pc = "idle"
    /\ ble_conn # "None"
    /\ seqno <= MaxSeqno
    /\ \E v \in LedValues :
         LET a == seqno_alloc(Begin)
             pkt == LEDPacket(Last(a.allocated), v)
             b == enqueue(a, pkt)
         IN  Commit([b EXCEPT !.awaiting = Put(@, pkt.seqno, pkt.kind),
                              !.thread.caller.pkt = pkt,
                              !.thread.caller.cb = "user_cb",
                              !.thread.caller.pc = "register"],
                    [op |-> "set_led_value", pkt |-> pkt])

\* line 223: self.packets[pkt.header.seqno] = (pkt, cb), and the returns
Register ==
    /\ thread.caller.pc = "register"
    /\ Commit([Begin EXCEPT !.packets = Put(@, thread.caller.pkt.seqno,
                                            [pkt |-> thread.caller.pkt,
                                             cb |-> thread.caller.cb,
                                             fired |-> 0]),
                            !.ret = thread.caller.pkt.seqno,
                            !.thread.caller.pkt = NoPkt,
                            !.thread.caller.cb = "None",
                            !.thread.caller.pc = "idle"],
              Stmt("_enqueue"))

\* every slice of the request with seqno s has been written and popped
Delivered(s) ==
    \A k \in 1..Len(write_buf) :
        write_buf[k].seqno = s => write_buf[k].pkt.kind = "ACK"

\* the device's ACK of a request it has received
DeviceAck ==
    \E s \in DOMAIN awaiting, status \in RxStatuses, r \in AckResponses :
        /\ Delivered(s)
        /\ OnPacket([AckPacket(s, status, awaiting[s]) EXCEPT !.response = r])

\* the first connection, made before the runner issues a request
FirstConnect == ble_conn = "None" /\ OnConnectSuccess

InitInflight == InitState(FALSE)

NextInflight ==
    \/ FirstConnect
    \/ SetLedValueCall
    \/ DeviceAck
    \/ WriteSucceeded
    \/ Register

SpecInflight == InitInflight /\ [][NextInflight]_vars

\* the slice being written belongs to a request
RequestInTransit ==
    /\ write_pending
    /\ write_buf # <<>>
    /\ Head(write_buf).pkt.kind # "ACK"

\* the last step was on_packet with an ACK
AckHandled == ev.op = "on_packet" /\ ev.pkt.kind = "ACK"

\* C32: the in-flight entry of a request exists while its slices are handed
\* to the transport, and the ACK of a request finds and invokes its
\* completion callback
C32_EntryBeforeFirstSlice ==
    /\ RequestInTransit =>
          /\ Head(write_buf).seqno \in DOMAIN packets
          /\ packets[Head(write_buf).seqno].pkt = Head(write_buf).pkt
    /\ AckHandled => (exc = "none" /\ cb_calls # <<>>)

-----------------------------------------------------------------------------
(* The order of the reply ACK and the subscriber callback                  *)
(* (protocol_machine.py 175-186, 211-214), checked under SpecStream.       *)

\* the last step handled a streamed chunk: a DATA_RESP or a GET_LOG_FILE_RESP
ChunkHandled ==
    /\ ev.op = "on_packet"
    /\ ev.pkt.kind \in {"DATA_RESP", "GET_LOG_FILE_RESP"}
    /\ exc = "none"

\* C33: for DATA_RESP and for GET_LOG_FILE_RESP the reply ACK is enqueued
\* before the subscriber callback is invoked, so whatever the callback
\* enqueues comes after that ACK
C33_AckBeforeSubscriber ==
    ChunkHandled =>
        \A i \in DOMAIN cb_calls :
            /\ cb_calls[i].enqueued >= 1
            /\ out[1] = AckPacket(ev.pkt.seqno, 0, ev.pkt.kind)

-----------------------------------------------------------------------------
(* The in-flight table and the replies to device-initiated messages        *)
(* (protocol_machine.py 128-132, 188-214, 221-223), checked under Spec.    *)

\* the step handles a device-initiated message: any packet but an ACK
DeviceMessageStep == ev'.op = "on_packet" /\ ev'.pkt.kind # "ACK"

\* C34: every entry of the in-flight table is a host request, and the
\* reply to a device-initiated message neither adds an ACK entry nor
\* replaces the packet or the callback registered for a seqno
C34_TableHoldsRequestsOnly ==
    /\ [](\A s \in DOMAIN packets : packets[s].pkt.kind # "ACK")
    /\ [][DeviceMessageStep =>
            \A s \in DOMAIN packets :
                /\ s \in DOMAIN packets'
                /\ packets'[s].pkt = packets[s].pkt
                /\ packets'[s].cb = packets[s].cb]_vars

-----------------------------------------------------------------------------
(* What a write failure removes from the queue (band.py 256-278), checked   *)
(* under SpecBand, where each enqueued packet has its own id.               *)

\* the slices queued before the step that the step removed from the queue
Dropped ==
    { k \in 1..Len(write_buf) :
        \A j \in 1..Len(write_buf') : write_buf'[j] # write_buf[k] }

\* C35: a write failure removes only slices of the packet whose slice
\* failed, also when the next packet in the queue carries the same seqno
C35_FailureDropsOwnPacketOnly ==
    [][ev'.op = "write_failed" =>
          \A k \in Dropped : write_buf[k].pkt.id = Head(write_buf).pkt.id]_vars

-----------------------------------------------------------------------------
(* The fragmenter's invariant and its termination (band.py 204-278),       *)
(* checked under SpecBand: enqueue and the write callbacks one at a time.  *)

\* C36: write_pending holds exactly when the queue is non-empty, one write
\* is outstanding exactly then, the head of the queue is the slice handed
\* to rx_char.write_value last, and no write callback finds the queue empty
C36_PendingIffQueued ==
    /\ write_pending <=> write_buf # <<>>
    /\ outstanding = (IF write_pending THEN 1 ELSE 0)
    /\ write_pending => (wire # <<>> /\ Head(write_buf) = Last(wire))
    /\ ev.op \in {"write_succeeded", "write_failed"} => exc = "none"

\* a write failure purged the head packet and the next packet's first slice
\* is now being written
C36_Witness ==
    /\ ev.op = "write_failed"
    /\ write_pending
    /\ Len(wire) >= 2
    /\ Head(write_buf) = Last(wire)
    /\ Head(write_buf).i0 = 0

\* the same events, with every started write answered: the BLE layer reports
\* success or failure of an outstanding write (enqueue stops after MaxPkts)
SpecBandFair ==
    /\ InitBand
    /\ [][NextBand]_vars
    /\ WF_vars(WriteSucceeded \/ WriteFailed)

\* the slices whose write was reported failed: written, not reported
\* successful, and not the write still outstanding
FailedSlices ==
    { i \in 1..Len(wire) :
        /\ \A j \in 1..Len(acked) : acked[j] # wire[i]
        /\ ~(outstanding > 0 /\ i = Len(wire)) }

\* a slice is settled when it was written successfully, or it has left the
\* queue and a write of a slice of its own packet failed
Settled(sl) ==
    \/ \E j \in 1..Len(acked) : acked[j] = sl
    \/ /\ \A k \in 1..Len(write_buf) : write_buf[k] # sl
       /\ \E i \in FailedSlices : wire[i].pkt.id = sl.pkt.id

Drained == write_buf = <<>> /\ ~write_pending

\* C37: the queue eventually stays empty with no write pending, and every
\* slice that was enqueued is then written successfully or was purged by a
\* failure of its own packet
C37_QueueDrainsSettled ==
    <>[](/\ Drained
         /\ \A n \in 1..Len(sent) :
              \A k \in DOMAIN Slices(sent[n]) : Settled(Slices(sent[n])[k]))

-----------------------------------------------------------------------------
(* Requests made before a transport is attached (protocol_machine.py       *)
(* 49-74, 89-126, 221-223): ble_conn is None until on_connect_success.     *)

\* the request methods of lines 89-126
RequestOps ==
    {"set_led_value", "request_device_reset", "request_stored_data",
     "request_acquisition_start", "request_acquisition_stop", "request_log_file"}

\* a request method is called while no transport is attached
RequestWithoutTransport == ble_conn = "None" /\ ev'.op \in RequestOps

\* C39: a request method called before the first on_connect_success raises,
\* and leaves the seqno counter, the in-flight table and the data and log
\* subscription slots as they were
C39_FailedRequestHasNoEffect ==
    [][RequestWithoutTransport =>
          /\ exc' = "AttributeError"
          /\ seqno' = seqno
          /\ packets' = packets
          /\ datareq_packet_cb' = datareq_packet_cb
          /\ logreq_packet_cb' = logreq_packet_cb]_vars

-----------------------------------------------------------------------------
(* DeviceLogRunner (demo_classes.py 57-73, 141-173): the runner's loop     *)
(* calls one_loop once a second while the machine is in a session; the     *)
(* device answers each LOG_GET with one GET_LOG_FILE_RESP page, whose      *)
(* payload the machine passes to logbuf_cb.                                *)

\* the runner's call pm.request_log_file(offset, 2048, lf_callback, logbuf_cb),
\* recorded in runner.issued with its caller and the bytes received so far
RunnerRequest(st, offset, from) ==
    LET a == request_log_file(st, offset, LOG_LENGTH, "lf_callback", "logbuf_cb")
    IN  [a EXCEPT !.ret = "None",
                  !.runner.issued =
                      Append(@, [offset |-> offset, from |-> from,
                                 received |-> st.runner.device_log])]

\* DeviceLogRunner.one_loop
one_loop(st) ==
    IF ~st.runner.made_request
    THEN LET a == RunnerRequest(st, 0, "one_loop")
         IN  IF a.exc # "none" THEN a
             ELSE [a EXCEPT !.runner.request_sent = TRUE]
    ELSE st

\* logbuf_cb(logbuf) of one_loop, with n = len(logbuf)
logbuf_cb(st, n) ==
    IF st.exc # "none" THEN st
    ELSE LET a == [st EXCEPT !.runner.device_log = @ + n]
         IN  IF n = LOG_LENGTH
             THEN RunnerRequest(a, a.runner.device_log, "logbuf_cb")
             ELSE [a EXCEPT !.runner.finished = TRUE]

\* one turn of BaseRunner.loop with the device connected
RunnerLoop ==
    /\ ~runner.finished
    /\ ble_conn # "None"
    /\ Room
    /\ Len(runner.issued) < MaxRequests
    /\ Commit(IF session_state = "STARTED" THEN one_loop(Begin) ELSE Begin,
              [op |-> "one_loop", pkt |-> NoPkt])

\* the payload lengths of a page: a full page and the short last one
PageLens == {LOG_LENGTH, LOG_LENGTH \div 2}

\* the device answers a LOG_GET with a page of n bytes: on_packet runs
\* handle_get_log_file_resp, whose last statement calls logreq_packet_cb
RunnerPage ==
    /\ ble_conn # "None"
    /\ Room
    /\ runner.pages < Len(runner.issued)
    /\ \E s \in DeviceSeqnos, n \in PageLens :
         /\ n = LOG_LENGTH => Len(runner.issued) < MaxRequests
         /\ LET pkt == LogFileRespPacket(s)
                a == on_packet([Begin EXCEPT !.runner.pages = @ + 1], pkt)
            IN  Commit(IF a.exc = "none" /\ a.cb_calls # <<>>
                          /\ Last(a.cb_calls).cb = "logbuf_cb"
                       THEN logbuf_cb(a, n) ELSE a,
                       [op |-> "on_packet", pkt |-> pkt, len |-> n])

InitRunner == InitState(FALSE)

NextRunner ==
    \/ FirstConnect
    \/ OnIsDevicePairedResp
    \/ OnSessionStartResp
    \/ WriteSucceeded
    \/ RunnerLoop
    \/ RunnerPage

SpecRunner == InitRunner /\ [][NextRunner]_vars

\* C40: one_loop issues request_log_file(0, 2048, ...) at most once, and every
\* other request comes from logbuf_cb with the offset equal to the number of
\* log bytes received so far
C40_InitialRequestOnce ==
    /\ Cardinality({ i \in DOMAIN runner.issued :
                       runner.issued[i].from = "one_loop" }) <= 1
    /\ \A i \in DOMAIN runner.issued :
         \/ runner.issued[i].from = "one_loop" /\ runner.issued[i].offset = 0
         \/ /\ runner.issued[i].from = "logbuf_cb"
            /\ runner.issued[i].offset = runner.issued[i].received

====
